---- MODULE Spec2Model ----
(***************************************************************************)
(* Model of the DCS Olympus client state synchronisation:                  *)
(*   - Unit (src/unnamed/part_001): partial-update merge, selection,       *)
(*     visibility, the deselect timers of the constructor;                 *)
(*   - UnitsManager (src/unnamed/part_002): update(buffer), the unit and   *)
(*     group tables.                                                       *)
(* Three specifications share the variables:                               *)
(*   SpecUnit  the Unit object under setData / setSelected / visibility;   *)
(*   SpecData  Unit.setData on every sub-record, one update in flight;     *)
(*   Spec      UnitsManager.update on byte buffers.                        *)
(***************************************************************************)
EXTENDS Integers, Sequences, FiniteSets, TLC

VARIABLES
    units,      \* UnitsManager.#units : ID -> Unit object
    groups,     \* UnitsManager.#groups : group name -> set of member IDs
    hide,       \* document.body data-hide-<name> attributes that are set
    inflight,   \* the update delivered by the server and not yet processed
    ticks,      \* the number of buffers delivered so far
    last,       \* the last operation performed and what it returned
    requestDetectionUpdate,   \* UnitsManager.#requestDetectionUpdate
    app,        \* getApp(): the command mode and the weapons table
    dcs,        \* DCSInstance.instances, the scans made, the getInstances calls
    ports,      \* the DCSInstance objects' ports and the set...Port calls
    sent,       \* the requests put to the server by the last operation
    mission,    \* MissionManager: command mode options and spawn points
    ui          \* the selection event flags and timers, the events, the dialog

vars == <<units, groups, hide, inflight, ticks, last, requestDetectionUpdate,
          app, dcs, ports, sent, mission, ui>>

None == "none"

\* the command modes of the mission (constants of the client)
GAME_MASTER == "Game master"

BLUE_COMMANDER == "Blue commander"

NoWeapons == [x \in {} |-> <<>>]

\* nothing in flight
Idle == [kind |-> None]

(***************************************************************************)
(* Bounds                                                                  *)
(***************************************************************************)
MaxTimers == 1      \* pending deselect timeouts per unit
MaxKeys == 2        \* fields contained in one JSON update
MaxPath == 1        \* destinations added to a path by the user
MaxCalls == 3       \* calls of DCSInstance.getInstances
MaxTicks == 2       \* buffers delivered to UnitsManager.update
MaxPortCalls == 2   \* calls of DCSInstance.setClientPort / setBackendPort
MaxPoints == 2      \* spawn points available to a commander
MaxDialogs == 1     \* slow-delete dialogs waiting for a button

\* DCSInstance.instances is null (0), no scan was made, no call has begun;
\* the list of DCSInstance objects made by the n-th scan is written n
CallIDs == 1..MaxCalls

NoScan == [instances |-> 0, scans |-> 0,
           calls |-> [c \in CallIDs |-> [pc |-> "idle", result |-> 0]]]

\* the DCSInstance objects of the list, and the calls of setClientPort and
\* setBackendPort on them
InstIDs == {1, 2}

PortCallIDs == 1..MaxPortCalls

\* the fields of a DCSInstance a constructor leaves when there is no
\* olympus.json in the folder
DefaultInstance == [installed |-> FALSE, clientPort |-> 3000, backendPort |-> 3001]

NoPortCall == [pc |-> "idle", inst |-> 0, which |-> None, port |-> 0,
               free |-> FALSE, result |-> FALSE]

NoPorts == [inst |-> [i \in InstIDs |-> DefaultInstance],
            calls |-> [c \in PortCallIDs |-> NoPortCall]]

\* no request was put to the server
NoRequests == <<>>

\* MissionManager before the mission has begun: spawns are not restricted
SetupPhase == [restrictSpawns |-> FALSE, remainingSetupTime |-> 1,
               availableSpawnPoints |-> 0, spentSpawnPoints |-> 0]

\* no selection event is pending, no dialog is shown, nothing was dispatched
Quiet == [selectionEventDisabled |-> FALSE, deselectionEventDisabled |-> FALSE,
          selectionTimers |-> 0, deselectionTimers |-> 0, mapState |-> "idle",
          dispatched |-> <<>>, protected |-> {}, dialogs |-> <<>>]

\* taskData.activePath: undefined, or the destinations under the keys
\* "1", "2", ... of the path object
Undefined == [defined |-> FALSE, points |-> <<>>]

Path(points) == [defined |-> TRUE, points |-> points]

(***************************************************************************)
(* Unit data (part_001 lines 18-66).  Every sub-record is modelled; of     *)
(* the fields of a sub-record the model keeps those the code reads by      *)
(* name and at least one per sub-record (the merge loops treat all keys    *)
(* of a sub-record alike).                                                 *)
(***************************************************************************)
DefaultData ==
    [ baseData      |-> [alive |-> TRUE, groupName |-> <<>>],
      flightData    |-> [latitude |-> 0, longitude |-> 0, heading |-> 0],
      missionData   |-> [coalition |-> ""],
      formationData |-> [leaderID |-> 0],
      taskData      |-> [activePath |-> Path(<<>>)],
      optionsData   |-> [ROE |-> ""] ]

SubRecords == DOMAIN DefaultData

\* Strings that travel on the wire are sequences of character codes.
S_GroundUnit == <<71, 114, 111, 117, 110, 100, 85, 110, 105, 116>>

S_Aircraft == <<65, 105, 114, 99, 114, 97, 102, 116>>

S_Helicopter == <<72, 101, 108, 105, 99, 111, 112, 116, 101, 114>>

S_Missile == <<77, 105, 115, 115, 105, 108, 101>>

S_Bomb == <<66, 111, 109, 98>>

S_NavyUnit == <<78, 97, 118, 121, 85, 110, 105, 116>>

WeaponCategories == {"Missile", "Bomb"}

\* Unit.getConstructor: the class for a category string, None for undefined
getConstructor(type) ==
    CASE type = S_GroundUnit -> "GroundUnit"
      [] type = S_Aircraft   -> "Aircraft"
      [] type = S_Helicopter -> "Helicopter"
      [] type = S_Missile    -> "Missile"
      [] type = S_Bomb       -> "Bomb"
      [] type = S_NavyUnit   -> "NavyUnit"
      [] OTHER               -> None

\* getMarkerCategory of each class (Helicopter does not override it; the
\* GroundUnit of a database role other than SAM)
getMarkerCategory(u) ==
    CASE u.class = "Aircraft"   -> "aircraft"
      [] u.class = "GroundUnit" -> "groundunit"
      [] u.class = "NavyUnit"   -> "navyunit"
      [] u.class = "Missile"    -> "missile"
      [] u.class = "Bomb"       -> "bomb"
      [] OTHER                  -> ""

\* the fields of a Unit object after its field initialisers have run; the
\* hotgroup null is written 0
FreshUnit(ID, class) ==
    [ ID |-> ID, class |-> class, data |-> DefaultData,
      selectable |-> TRUE, selected |-> FALSE, hidden |-> FALSE,
      onMap |-> FALSE, timers |-> 0, group |-> {},
      contacts |-> <<>>, detectionMethods |-> <<>>,
      hotgroup |-> 0, human |-> FALSE, controlledByOlympus |-> FALSE,
      state |-> "idle" ]

getSelected(u) == u.selected

getSelectable(u) == u.selectable

getHidden(u) == u.hidden

getAlive(u) == u.data.baseData.alive

getHotgroup(u) == u.hotgroup

setHotgroup(u, hotgroup) == [u EXCEPT !.hotgroup = hotgroup]

getHuman(u) == u.human

isControlledByOlympus(u) == u.controlledByOlympus

getState(u) == u.state

getLeaderID(u) == u.data.formationData.leaderID

\* faulty variant: a unit that is not alive can be selected
canSetSelected_IgnoresAlive(u, selected) ==
    getSelectable(u) /\ getSelected(u) # selected

\* the guard of Unit.setSelected
canSetSelected(u, selected) ==
    (getAlive(u) \/ ~selected) /\ getSelectable(u) /\ getSelected(u) # selected

setSelected(u, selected) ==
    IF canSetSelected(u, selected) THEN [u EXCEPT !.selected = selected] ELSE u

setSelectable(u, selectable) == [u EXCEPT !.selectable = selectable]

setHidden(u, hidden) ==
    LET h  == [u EXCEPT !.hidden = hidden]
        a  == IF ~h.onMap /\ ~getHidden(h) THEN [h EXCEPT !.onMap = TRUE] ELSE h
    IN  IF a.onMap /\ getHidden(a) THEN [a EXCEPT !.onMap = FALSE] ELSE a

updateVisibility(u, hidden_names) ==
    setHidden(u, \/ u.data.missionData.coalition \in hidden_names
                 \/ getMarkerCategory(u) \in hidden_names
                 \/ ~getAlive(u))

\* setData dereferences data.flightData and data.baseData before merging
setDataThrows(d) == "flightData" \notin DOMAIN d \/ "baseData" \notin DOMAIN d

contains(d, s, k) == s \in DOMAIN d /\ k \in DOMAIN d[s]

positionChanged(u, d) ==
    /\ contains(d, "flightData", "latitude")
    /\ contains(d, "flightData", "longitude")
    /\ \/ u.data.flightData.latitude # d.flightData.latitude
       \/ u.data.flightData.longitude # d.flightData.longitude

headingChanged(u, d) ==
    /\ contains(d, "flightData", "heading")
    /\ u.data.flightData.heading # d.flightData.heading

aliveChanged(u, d) ==
    /\ contains(d, "baseData", "alive")
    /\ u.data.baseData.alive # d.baseData.alive

needsMarkerUpdate(u, d) ==
    positionChanged(u, d) \/ headingChanged(u, d) \/ aliveChanged(u, d) \/ ~u.onMap

\* one "if (data.X != undefined) for (key in this.#data.X) if (key in data.X)" block
mergeSubRecord(stored, d, s) ==
    IF s \in DOMAIN d
    THEN [k \in DOMAIN stored |-> IF k \in DOMAIN d[s] THEN d[s][k] ELSE stored[k]]
    ELSE stored

mergeData(data, d) == [s \in SubRecords |-> mergeSubRecord(data[s], d, s)]

\* faulty variant: the selection survives the death of the unit
selectionAfterData_IgnoresAlive(u) == getSelected(u) /\ ~getHidden(u)

\* "Dead units can't be selected"
selectionAfterData(u) == getSelected(u) /\ getAlive(u) /\ ~getHidden(u)

\* Unit.setData; the unit is unchanged when the call throws
setData(u, d, hidden_names) ==
    IF setDataThrows(d) THEN u
    ELSE LET updateMarker == needsMarkerUpdate(u, d)
             merged == [u EXCEPT !.data = mergeData(u.data, d)]
             sel    == setSelected(merged, selectionAfterData(merged))
         IN  IF updateMarker THEN updateVisibility(sel, hidden_names) ELSE sel

\* faulty variant: the Weapon constructor leaves the unit selectable
afterSuper_KeepsSelectable(u) == u

\* Weapon.constructor: setSelectable(false) after the Unit constructor
afterSuper(u) ==
    IF u.class \in WeaponCategories THEN setSelectable(u, FALSE) ELSE u

\* new <class>(ID, data): Unit.constructor then the subclass constructor
construct(ID, class, d, hidden_names) ==
    afterSuper(setData(FreshUnit(ID, class), d, hidden_names))

(***************************************************************************)
(* Inputs of the Unit specifications                                       *)
(***************************************************************************)
UnitIDs == {1}

UnitClasses == {"Aircraft", "Missile"}

HideCoalitions == {"red"}

Destinations == {2}

HideCategories == {"aircraft"}

FieldValues ==
    [ baseData      |-> [alive |-> BOOLEAN, groupName |-> {<<>>, <<97>>, <<98>>}],
      flightData    |-> [latitude |-> {0, 1}, longitude |-> {0, 1}, heading |-> {0, 1}],
      missionData   |-> [coalition |-> {"", "red"}],
      formationData |-> [leaderID |-> {0, 2}],
      taskData      |-> [activePath |-> {Path(<<>>), Path(<<1>>)}],
      optionsData   |-> [ROE |-> {"", "hold"}] ]

EmptyRec == [x \in {} |-> 0]

Extend(r, k, v) == [x \in DOMAIN r \cup {k} |-> IF x = k THEN v ELSE r[x]]

Restrict(r, K) == [x \in K |-> r[x]]

\* the partial sub-records of s over the keys K
RECURSIVE PartialRecs(_, _)
PartialRecs(s, K) ==
    IF K = {} THEN {EmptyRec}
    ELSE LET k    == CHOOSE x \in K : TRUE
             rest == PartialRecs(s, K \ {k})
         IN  rest \cup { Extend(r, k, v) : r \in rest, v \in FieldValues[s][k] }

\* the updates with every sub-record of S present and at most budget keys
RECURSIVE UpdatesFrom(_, _, _)
UpdatesFrom(S, keys, budget) ==
    IF S = {} THEN {EmptyRec}
    ELSE LET s == CHOOSE x \in S : TRUE
         IN  UNION { { Extend(rest, s, r) :
                         rest \in UpdatesFrom(S \ {s}, keys, budget - Cardinality(DOMAIN r)) } :
                     r \in { x \in PartialRecs(s, keys[s]) : Cardinality(DOMAIN x) <= budget } }

\* ... and those in which one sub-record that carries no key is absent
UpdatesOver(keys) ==
    LET all == UpdatesFrom(SubRecords, keys, MaxKeys)
    IN  all \cup UNION { { Restrict(d, SubRecords \ {s}) :
                               s \in { x \in SubRecords : DOMAIN d[x] = {} } } : d \in all }

\* the update of a constructor call without data
EmptyUpdate == [s \in SubRecords |-> EmptyRec]

\* SpecUnit: the fields that selection and visibility depend on
UnitKeys ==
    [ baseData |-> {"alive"}, flightData |-> {"heading"}, missionData |-> {"coalition"},
      formationData |-> {}, taskData |-> {}, optionsData |-> {} ]

UnitUpdates == UpdatesOver(UnitKeys)

\* SpecData: fields of every sub-record
DataKeys ==
    [ baseData |-> {"alive"}, flightData |-> {"latitude", "longitude"},
      missionData |-> {"coalition"}, formationData |-> {"leaderID"},
      taskData |-> {"activePath"}, optionsData |-> {"ROE"} ]

DataUpdates == UpdatesOver(DataKeys)

(***************************************************************************)
(* State                                                                   *)
(***************************************************************************)
NoUnits == [x \in {} |-> 0]

NoGroups == [x \in {} |-> {}]

\* what is recorded of a call on unit id: the operation, whether it threw,
\* and the unit's selection, alive and hidden flags before the call
UnitCall(op, id, threw) ==
    [ op |-> op, id |-> id, threw |-> threw,
      preSelected |-> IF id \in DOMAIN units THEN units[id].selected ELSE FALSE,
      preAlive    |-> IF id \in DOMAIN units THEN getAlive(units[id]) ELSE FALSE,
      preHidden   |-> IF id \in DOMAIN units THEN units[id].hidden ELSE FALSE ]

Init ==
    /\ units = NoUnits
    /\ groups = NoGroups
    /\ hide = {}
    /\ inflight = Idle
    /\ ticks = 0
    /\ requestDetectionUpdate = FALSE
    /\ app = [commandMode |-> GAME_MASTER, weapons |-> NoWeapons]
    /\ dcs = NoScan
    /\ ports = NoPorts
    /\ sent = NoRequests
    /\ mission = SetupPhase
    /\ ui = Quiet
    /\ last = [op |-> "init", id |-> 0, threw |-> FALSE,
               preSelected |-> FALSE, preAlive |-> FALSE, preHidden |-> FALSE]

(***************************************************************************)
(* Unit operations                                                         *)
(***************************************************************************)
\* new <class>(ID, data) and its registration in the table
NewUnit(id, class, d) ==
    /\ id \notin DOMAIN units
    /\ units' = IF setDataThrows(d) THEN units
                ELSE Extend(units, id, construct(id, class, d, hide))
    /\ last' = UnitCall("new", id, setDataThrows(d))
    /\ UNCHANGED <<groups, hide, inflight, ticks, requestDetectionUpdate, app, dcs, ports, sent, mission, ui>>

\* the effect of unit.setData(d)
DoSetData(id, d) ==
    /\ units' = [units EXCEPT ![id] = setData(@, d, hide)]
    /\ last' = UnitCall("setData", id, setDataThrows(d))

SetData(id, d) ==
    /\ id \in DOMAIN units
    /\ DoSetData(id, d)
    /\ UNCHANGED <<groups, hide, inflight, ticks, requestDetectionUpdate, app, dcs, ports, sent, mission, ui>>

\* the server's JSON update for unit id arrives
Receive(id, d) ==
    /\ inflight.kind = None
    /\ id \in DOMAIN units
    /\ inflight' = [kind |-> "json", id |-> id, data |-> d]
    /\ UNCHANGED <<units, groups, hide, ticks, last, requestDetectionUpdate, app, dcs, ports, sent, mission, ui>>

\* ... and is applied with unit.setData
ApplyData ==
    /\ inflight.kind = "json"
    /\ DoSetData(inflight.id, inflight.data)
    /\ inflight' = Idle
    /\ UNCHANGED <<groups, hide, ticks, requestDetectionUpdate, app, dcs, ports, sent, mission, ui>>

SetSelected(id, selected) ==
    /\ id \in DOMAIN units
    /\ units' = [units EXCEPT ![id] = setSelected(@, selected)]
    /\ last' = UnitCall(IF selected THEN "select" ELSE "deselect", id, FALSE)
    /\ UNCHANGED <<groups, hide, inflight, ticks, requestDetectionUpdate, app, dcs, ports, sent, mission, ui>>

\* UnitsManager.deselectAllUnits
deselectAllUnits(U) == [id \in DOMAIN U |-> setSelected(U[id], FALSE)]

\* setSelected(true) on every unit of the table that is in IDs
selectEach(U, IDs) ==
    [id \in DOMAIN U |-> IF id \in IDs THEN setSelected(U[id], TRUE) ELSE U[id]]

\* UnitsManager.selectUnit(ID, deselectAllUnits)
SelectUnit(ID, deselectAll) ==
    /\ LET others == { id \in DOMAIN units : getSelected(units[id]) /\ id # ID }
           U1 == IF deselectAll
                 THEN [id \in DOMAIN units |->
                          IF id \in others THEN setSelected(units[id], FALSE) ELSE units[id]]
                 ELSE units
       IN  units' = selectEach(U1, {ID})
    /\ last' = UnitCall("select", ID, FALSE)
    /\ UNCHANGED <<groups, hide, inflight, ticks, requestDetectionUpdate, app, dcs, ports, sent, mission, ui>>

\* UnitsManager.selectFromBounds(bounds): inside are the units in the bounds
SelectFromBounds(inside) ==
    /\ LET U1 == deselectAllUnits(units)
       IN  units' = selectEach(U1, { id \in inside \cap DOMAIN U1 : ~getHidden(U1[id]) })
    /\ last' = UnitCall("selectFromBounds", 0, FALSE)
    /\ UNCHANGED <<groups, hide, inflight, ticks, requestDetectionUpdate, app, dcs, ports, sent, mission, ui>>

\* UnitsManager.selectUnitsByHotgroup: members are the units of the hotgroup
SelectUnitsByHotgroup(members, deselectAll) ==
    /\ LET U1 == IF deselectAll THEN deselectAllUnits(units) ELSE units
       IN  units' = selectEach(U1, { id \in members \cap DOMAIN U1 : getAlive(U1[id]) })
    /\ last' = UnitCall("selectUnitsByHotgroup", 0, FALSE)
    /\ UNCHANGED <<groups, hide, inflight, ticks, requestDetectionUpdate, app, dcs, ports, sent, mission, ui>>

\* UnitsManager.#onKeyUp, Ctrl+A: every unit that is not hidden
SelectAll ==
    /\ units' = selectEach(units, { id \in DOMAIN units : ~getHidden(units[id]) })
    /\ last' = UnitCall("selectAll", 0, FALSE)
    /\ UNCHANGED <<groups, hide, inflight, ticks, requestDetectionUpdate, app, dcs, ports, sent, mission, ui>>

\* Unit.addDestination: the stored path object itself gets the new key
\* before the command is sent; a path that is undefined is left so
addDestination(u, latlng) ==
    IF u.data.taskData.activePath.defined
    THEN [u EXCEPT !.data.taskData.activePath.points = Append(@, latlng)]
    ELSE u

\* Unit.clearDestinations
clearDestinations(u) == [u EXCEPT !.data.taskData.activePath = Undefined]

AddDestination(id, latlng) ==
    /\ id \in DOMAIN units
    /\ Len(units[id].data.taskData.activePath.points) < MaxPath
    /\ units' = [units EXCEPT ![id] = addDestination(@, latlng)]
    /\ last' = UnitCall("addDestination", id, FALSE)
    /\ UNCHANGED <<groups, hide, inflight, ticks, requestDetectionUpdate, app, dcs, ports, sent, mission, ui>>

ClearDestinations(id) ==
    /\ id \in DOMAIN units
    /\ units' = [units EXCEPT ![id] = clearDestinations(@)]
    /\ last' = UnitCall("clearDestinations", id, FALSE)
    /\ UNCHANGED <<groups, hide, inflight, ticks, requestDetectionUpdate, app, dcs, ports, sent, mission, ui>>

\* the commands that only send a request to the server
ServerCommands ==
    { "attackUnit", "followUnit", "landAt", "changeSpeed", "changeAltitude",
      "setSpeed", "setAltitude", "setROE", "setReactionToThreat", "setLeader",
      "delete", "refuel", "setAdvancedOptions" }

ServerCommand(id, name) ==
    /\ id \in DOMAIN units
    /\ last' = UnitCall(name, id, FALSE)
    /\ UNCHANGED <<units, groups, hide, inflight, ticks, requestDetectionUpdate, app, dcs, ports, sent, mission, ui>>

Commands == ServerCommands \cup {"addDestination", "clearDestinations"}

\* every unit's listener of a toggle event: setTimeout(..., 300)
scheduleDeselect(u) == [u EXCEPT !.timers = @ + 1]

\* a toggle of a data-hide attribute: the visibility of every unit is
\* recomputed and the event reaches the listeners of every unit
ToggleHide(name, op) ==
    /\ \A id \in DOMAIN units : units[id].timers < MaxTimers
    /\ hide' = IF name \in hide THEN hide \ {name} ELSE hide \cup {name}
    /\ units' = [id \in DOMAIN units |->
                    scheduleDeselect(updateVisibility(units[id], hide'))]
    /\ last' = UnitCall(op, 0, FALSE)
    /\ UNCHANGED <<groups, inflight, ticks, requestDetectionUpdate, app, dcs, ports, sent, mission, ui>>

ToggleCoalitionVisibility(c) == ToggleHide(c, "toggleCoalitionVisibility")

ToggleUnitVisibility(c) == ToggleHide(c, "toggleUnitVisibility")

\* the body of the timeout: setSelected(getSelected() && !getHidden())
deselectIfHidden(u) == setSelected(u, getSelected(u) /\ ~getHidden(u))

TimerFire(id) ==
    /\ id \in DOMAIN units
    /\ units[id].timers > 0
    /\ units' = [units EXCEPT ![id] = [deselectIfHidden(@) EXCEPT !.timers = @ - 1]]
    /\ last' = UnitCall("timer", id, FALSE)
    /\ UNCHANGED <<groups, hide, inflight, ticks, requestDetectionUpdate, app, dcs, ports, sent, mission, ui>>

\* UnitsManager's listener: every unit recomputes its visibility
CommandModeOptionsChanged ==
    /\ units' = [id \in DOMAIN units |-> updateVisibility(units[id], hide)]
    /\ last' = UnitCall("commandModeOptionsChanged", 0, FALSE)
    /\ UNCHANGED <<groups, hide, inflight, ticks, requestDetectionUpdate, app, dcs, ports, sent, mission, ui>>

NextUnit ==
    \/ \E id \in UnitIDs, c \in UnitClasses, d \in UnitUpdates : NewUnit(id, c, d)
    \/ \E id \in UnitIDs, d \in UnitUpdates : SetData(id, d)
    \/ \E id \in UnitIDs, b \in BOOLEAN : SetSelected(id, b)
    \/ \E id \in UnitIDs, b \in BOOLEAN : SelectUnit(id, b)
    \/ \E inside \in SUBSET UnitIDs : SelectFromBounds(inside)
    \/ \E members \in SUBSET UnitIDs, b \in BOOLEAN : SelectUnitsByHotgroup(members, b)
    \/ SelectAll
    \/ \E id \in UnitIDs, latlng \in Destinations : AddDestination(id, latlng)
    \/ \E id \in UnitIDs : ClearDestinations(id)
    \/ \E id \in UnitIDs, name \in ServerCommands : ServerCommand(id, name)
    \/ \E c \in HideCoalitions : ToggleCoalitionVisibility(c)
    \/ \E c \in HideCategories : ToggleUnitVisibility(c)
    \/ \E id \in UnitIDs : TimerFire(id)
    \/ CommandModeOptionsChanged

SpecUnit == Init /\ [][NextUnit]_vars

NextData ==
    \/ \E id \in UnitIDs : NewUnit(id, "Aircraft", EmptyUpdate)
    \/ \E id \in UnitIDs, d \in DataUpdates : Receive(id, d)
    \/ ApplyData

SpecData == Init /\ [][NextData]_vars

(***************************************************************************)
(* DataExtractor: a cursor over the bytes of the buffer.  An extraction    *)
(* that would read past the end of the buffer fails (BufferUnderrun).      *)
(* Integers are little-endian; a string is a 16-bit length and its bytes.  *)
(***************************************************************************)
canExtract(buf, pos, n) == pos + n <= Len(buf)

RECURSIVE littleEndian(_, _, _)
littleEndian(buf, pos, n) ==
    IF n = 0 THEN 0 ELSE buf[pos + 1] + 256 * littleEndian(buf, pos + 1, n - 1)

extractUInt8(buf, pos) == littleEndian(buf, pos, 1)

extractUInt32(buf, pos) == littleEndian(buf, pos, 4)

extractUInt64(buf, pos) == littleEndian(buf, pos, 8)

canExtractString(buf, pos) ==
    canExtract(buf, pos, 2) /\ canExtract(buf, pos + 2, littleEndian(buf, pos, 2))

extractString(buf, pos) ==
    SubSeq(buf, pos + 3, pos + 2 + littleEndian(buf, pos, 2))

\* the seek position after the string at pos
afterString(buf, pos) == pos + 2 + littleEndian(buf, pos, 2)

\* the field tags of the codec table
DataIndexes == [category |-> 1, alive |-> 2, groupName |-> 3]

\* the update that contains the one field k of sub-record s
oneField(s, k, v) == [EmptyUpdate EXCEPT ![s] = Extend(EmptyRec, k, v)]

\* Entity decoder: the field whose tag is at pos, as an update of the unit
\* and the seek position after it; ok is false when the extraction fails
\* or the tag is not in the codec table
decodeField(buf, pos) ==
    IF ~canExtract(buf, pos, 1) THEN [ok |-> FALSE]
    ELSE LET datumIndex == extractUInt8(buf, pos)
             p == pos + 1
         IN  CASE datumIndex = DataIndexes.category ->
                    IF canExtractString(buf, p)
                    THEN [ok |-> TRUE, pos |-> afterString(buf, p), data |-> EmptyUpdate]
                    ELSE [ok |-> FALSE]
               [] datumIndex = DataIndexes.alive ->
                    IF canExtract(buf, p, 1)
                    THEN [ok |-> TRUE, pos |-> p + 1,
                          data |-> oneField("baseData", "alive", extractUInt8(buf, p) # 0)]
                    ELSE [ok |-> FALSE]
               [] datumIndex = DataIndexes.groupName ->
                    IF canExtractString(buf, p)
                    THEN [ok |-> TRUE, pos |-> afterString(buf, p),
                          data |-> oneField("baseData", "groupName", extractString(buf, p))]
                    ELSE [ok |-> FALSE]
               [] OTHER -> [ok |-> FALSE]

(***************************************************************************)
(* UnitsManager                                                            *)
(***************************************************************************)
\* UnitsManager.addUnit: the table after addUnit(ID, category)
addUnit(U, ID, category, hidden_names) ==
    IF category # <<>> /\ getConstructor(category) # None
    THEN Extend(U, ID, construct(ID, getConstructor(category), EmptyUpdate, hidden_names))
    ELSE U

\* faulty variant: any first tag is taken for the category
isCategoryIndex_Any(datumIndex) == TRUE

\* "if (datumIndex == DataIndexes.category)" for an ID that is not in the table
isCategoryIndex(datumIndex) == datumIndex = DataIndexes.category

\* What a call of update() did, for the properties: the IDs it added, the
\* seek positions it extracted an ID from, the first tag (and category) it
\* read for each ID that was not in the table, the fields it merged.
\* seeks: the seek position at every test of the loop condition
NoTrace == [created |-> {}, idReads |-> {}, unknown |-> <<>>, merged |-> <<>>,
            seeks |-> <<>>]

\* the call ends at seek position pos: an exception escapes it ("throw"),
\* it returns from inside the loop ("abort") or after the loop ("done")
Outcome(how, U, ret, pos, tr) ==
    [units |-> U, how |-> how, ret |-> ret, seek |-> pos, trace |-> tr]

\* an extraction failed in update() or in Unit.setData: nothing catches it
thrown(U, pos, tr) == Outcome("throw", U, -1, pos, tr)

\* faulty variant: the table of the start of the call is restored
abandon_RollsBack(U0, U, updateTime, pos, tr) == Outcome("abort", U0, updateTime, pos, tr)

\* faulty variant: the early return has no value
abandon_ReturnsNothing(U0, U, updateTime, pos, tr) == Outcome("abort", U, -1, pos, tr)

\* "Inconsistent data, we need to wait for a refresh": return updateTime.
\* U0 is the table at the start of the call, U the table now.
abandon(U0, U, updateTime, pos, tr) == Outcome("abort", U, updateTime, pos, tr)

\* faulty variant: a unit that is no longer alive is dropped from the table
applyField_DropsDead(U, ID, f, hidden_names) ==
    LET U2 == [U EXCEPT ![ID] = setData(@, f.data, hidden_names)]
    IN  IF getAlive(U2[ID]) THEN U2 ELSE Restrict(U2, DOMAIN U2 \ {ID})

\* the table after this.#units[ID]?.setData(dataExtractor) decoded field f
applyField(U, ID, f, hidden_names) == [U EXCEPT ![ID] = setData(@, f.data, hidden_names)]

\* the seek position after the extractUInt32 at pos
\* faulty variant: the extraction leaves the seek position where it was
afterUInt32_Stays(pos) == pos

afterUInt32(pos) == pos + 4

\* the decode loop of update() from seek position pos
RECURSIVE decodeLoop(_, _, _, _, _, _, _)
decodeLoop(U0, U, buf, pos, updateTime, tr0, hidden_names) ==
    LET tr == [tr0 EXCEPT !.seeks = Append(@, pos)]
    IN
    IF ~(pos < Len(buf)) THEN Outcome("done", U, updateTime, pos, tr)
    ELSE IF ~canExtract(buf, pos, 4) THEN thrown(U, pos, tr)
    ELSE LET ID == extractUInt32(buf, pos)
             t1 == [tr EXCEPT !.idReads = @ \cup {pos}]
             p  == afterUInt32(pos)
         IN  IF ID \notin DOMAIN U
             THEN IF ~canExtract(buf, p, 1) THEN thrown(U, p, t1)
                  ELSE LET datumIndex == extractUInt8(buf, p)
                           ev == [ID |-> ID, pos |-> pos, tag |-> datumIndex,
                                  hasCategory |-> FALSE, category |-> <<>>]
                       IN  IF isCategoryIndex(datumIndex)
                           THEN IF ~canExtractString(buf, p + 1)
                                THEN thrown(U, p + 1, [t1 EXCEPT !.unknown = Append(@, ev)])
                                ELSE LET category == extractString(buf, p + 1)
                                         U2 == addUnit(U, ID, category, hidden_names)
                                         q  == afterString(buf, p + 1)
                                         t2 == [t1 EXCEPT
                                                  !.unknown = Append(@, [ev EXCEPT !.hasCategory = TRUE,
                                                                                   !.category = category]),
                                                  !.created = IF ID \in DOMAIN U2 THEN @ \cup {ID} ELSE @]
                                     IN  IF ID \in DOMAIN U2
                                         THEN LET f == decodeField(buf, q)
                                              IN  IF ~f.ok THEN thrown(U2, q, t2)
                                                  ELSE decodeLoop(U0, applyField(U2, ID, f, hidden_names),
                                                           buf, f.pos, updateTime,
                                                           [t2 EXCEPT !.merged = Append(@, [ID |-> ID, data |-> f.data])],
                                                           hidden_names)
                                         ELSE decodeLoop(U0, U2, buf, q, updateTime, t2, hidden_names)
                           ELSE abandon(U0, U, updateTime, p + 1, [t1 EXCEPT !.unknown = Append(@, ev)])
             ELSE LET f == decodeField(buf, p)
                  IN  IF ~f.ok THEN thrown(U, p, t1)
                      ELSE decodeLoop(U0, applyField(U, ID, f, hidden_names), buf, f.pos, updateTime,
                                      [t1 EXCEPT !.merged = Append(@, [ID |-> ID, data |-> f.data])],
                                      hidden_names)

getGroupName(u) == u.data.baseData.groupName

NoGroup == {}

\* faulty variant: every unit is taken for ungrouped
hasNoGroup_Always(u) == TRUE

\* "if (unit.getGroup() === null)"
hasNoGroup(u) == u.group = NoGroup

\* Group.addMember: the unit joins the group and remembers it
addMember(UG, name, ID) ==
    [units  |-> [UG.units EXCEPT ![ID].group = {name}],
     groups |-> [UG.groups EXCEPT ![name] = @ \cup {ID}]]

\* "constructor": a name every JavaScript object inherits from Object.prototype
S_constructor == <<99, 111, 110, 115, 116, 114, 117, 99, 116, 111, 114>>

\* this.#groups is an object literal: besides the names it was given it has
\* the names it inherits (constructor stands for them)
InheritedNames == {S_constructor}

\* "groupName in this.#groups": own and inherited names
inGroups(G, groupName) == groupName \in DOMAIN G \/ groupName \in InheritedNames

\* faulty variant: a new Group is made for the name at every sight of it
groupUnit_NewGroupEachTime(UG, ID) ==
    LET groupName == getGroupName(UG.units[ID])
    IN  IF groupName # <<>>
        THEN LET G1 == [UG EXCEPT !.groups =
                          [g \in DOMAIN UG.groups \cup {groupName} |->
                              IF g = groupName THEN {} ELSE UG.groups[g]]]
             IN  IF hasNoGroup(G1.units[ID])
                 THEN addMember(G1, groupName, ID) @@ [threw |-> FALSE]
                 ELSE G1
        ELSE UG

\* one iteration of "for (let ID in this.#units)" of the group update;
\* this.#groups[groupName].addMember is a TypeError when the name is an
\* inherited one, for which no Group was made
groupUnit(UG, ID) ==
    LET groupName == getGroupName(UG.units[ID])
    IN  IF groupName # <<>>
        THEN LET G1 == IF ~inGroups(UG.groups, groupName)
                       THEN [UG EXCEPT !.groups = Extend(UG.groups, groupName, {})]
                       ELSE UG
             IN  IF hasNoGroup(G1.units[ID])
                 THEN IF groupName \in DOMAIN G1.groups
                      THEN addMember(G1, groupName, ID) @@ [threw |-> FALSE]
                      ELSE [G1 EXCEPT !.threw = TRUE]
                 ELSE G1
        ELSE UG

\* the group update, in the order of for...in over integer keys
RECURSIVE updateGroups(_, _)
updateGroups(UG, IDs) ==
    IF IDs = {} \/ UG.threw THEN UG
    ELSE LET ID == CHOOSE x \in IDs : \A y \in IDs : x <= y
         IN  updateGroups(groupUnit(UG, ID), IDs \ {ID})

\* UnitsManager.update up to the group update: the tables after it and how
\* the call ended
update(U, G, buf, hidden_names) ==
    IF ~canExtract(buf, 0, 8)
    THEN thrown(U, 0, NoTrace) @@ [groups |-> G]
    ELSE LET r == decodeLoop(U, U, buf, 8, extractUInt64(buf, 0), NoTrace, hidden_names)
         IN  IF r.how = "done"
             THEN LET UG == updateGroups([units |-> r.units, groups |-> G, threw |-> FALSE],
                                         DOMAIN r.units)
                  IN  [r EXCEPT !.units = UG.units,
                                !.how = IF UG.threw THEN "throw" ELSE "done",
                                !.ret = IF UG.threw THEN -1 ELSE r.ret]
                          @@ [groups |-> UG.groups]
             ELSE r @@ [groups |-> G]

(***************************************************************************)
(* The detection step of UnitsManager.update                               *)
(***************************************************************************)
\* MissionManager.getCommandedCoalition
getCommandedCoalition(A) == IF A.commandMode = BLUE_COMMANDER THEN "blue" ELSE "all"

\* Unit.belongsToCommandedCoalition, outside Game Master mode
belongsToCommandedCoalition(u, A) == u.data.missionData.coalition = getCommandedCoalition(A)

\* "if (this.#requestDetectionUpdate && ...commandMode != GAME_MASTER)"
detectionDue(request, A) == request /\ A.commandMode # GAME_MASTER

\* "a dictionary of empty detection methods arrays" for units and weapons
emptyDetectionMethods(U, W) == [ID \in DOMAIN U \cup DOMAIN W |-> <<>>]

\* Array.prototype.includes
includes(list, x) == \E i \in DOMAIN list : list[i] = x

\* the body of contacts.forEach
addContact(dm, contact) ==
    IF contact.ID \in DOMAIN dm /\ ~includes(dm[contact.ID], contact.detectionMethod)
    THEN [dm EXCEPT ![contact.ID] = Append(@, contact.detectionMethod)]
    ELSE dm

RECURSIVE addContacts(_, _)
addContacts(dm, contacts) ==
    IF contacts = <<>> THEN dm
    ELSE addContacts(addContact(dm, Head(contacts)), Tail(contacts))

\* faulty variant: dead units observe too
observes_EvenDead(u, A) == belongsToCommandedCoalition(u, A)

\* "if (unit.getAlive() && unit.belongsToCommandedCoalition())"
observes(u, A) == getAlive(u) /\ belongsToCommandedCoalition(u, A)

\* "Fill the array with the detection methods", in the order of for...in
RECURSIVE fillDetectionMethods(_, _, _, _)
fillDetectionMethods(dm, U, A, IDs) ==
    IF IDs = {} THEN dm
    ELSE LET ID == CHOOSE x \in IDs : \A y \in IDs : x <= y
             dm2 == IF observes(U[ID], A) THEN addContacts(dm, U[ID].contacts) ELSE dm
         IN  fillDetectionMethods(dm2, U, A, IDs \ {ID})

\* faulty variant: the request is dropped in Game Master mode
updateDetection_DropsRequest(U, request, A) ==
    [units |-> U, weapons |-> A.weapons, request |-> FALSE, ran |-> FALSE]

\* the detection step: the units and weapons and the flag after it
updateDetection(U, request, A) ==
    IF detectionDue(request, A)
    THEN LET dm == fillDetectionMethods(emptyDetectionMethods(U, A.weapons), U, A, DOMAIN U)
         IN  [units   |-> [ID \in DOMAIN U |-> [U[ID] EXCEPT !.detectionMethods = dm[ID]]],
              weapons |-> [ID \in DOMAIN A.weapons |-> dm[ID]],
              request |-> FALSE, ran |-> TRUE]
    ELSE [units |-> U, weapons |-> A.weapons, request |-> request, ran |-> FALSE]

(***************************************************************************)
(* The server's messages: a timestamp and records, each the ID of a unit   *)
(* and the fields that follow it.                                          *)
(***************************************************************************)
U16(n) == <<n % 256, n \div 256>>

U32(n) == <<n % 256, (n \div 256) % 256, (n \div 65536) % 256, n \div 16777216>>

U64(n) == U32(n) \o <<0, 0, 0, 0>>

StringBytes(str) == U16(Len(str)) \o str

FieldBytes(f) ==
    <<DataIndexes[f.tag]>> \o
        (IF f.tag = "alive" THEN <<IF f.value THEN 1 ELSE 0>> ELSE StringBytes(f.value))

RECURSIVE Concat(_)
Concat(ss) == IF ss = <<>> THEN <<>> ELSE Head(ss) \o Concat(Tail(ss))

RecordBytes(r) == U32(r.ID) \o Concat([i \in 1..Len(r.fields) |-> FieldBytes(r.fields[i])])

Encode(msg) ==
    U64(msg.time) \o Concat([i \in 1..Len(msg.recs) |-> RecordBytes(msg.recs[i])])

WireIDs == {1, 2}

WireTimes == {1, 258}

S_Unknown == <<88>>

WireCategories == {S_Aircraft, S_Unknown, <<>>}

CategoryFields == { [tag |-> "category", value |-> c] : c \in WireCategories }

AliveFields == { [tag |-> "alive", value |-> FALSE] }

GroupFields ==
    { [tag |-> "groupName", value |-> g] : g \in {<<>>, <<97>>, <<98>>, S_constructor} }

Field(tag, value) == [tag |-> tag, value |-> value]

\* a record is the ID of a unit and the fields that follow it: one field of
\* a unit the client knows, the category and one field of a new unit
Record(ID, fields) == [ID |-> ID, fields |-> fields]

PlainRecords ==
    { Record(id, <<f>>) : id \in WireIDs, f \in AliveFields \cup GroupFields }

NewRecords ==
    { Record(id, <<Field("category", S_Aircraft), f>>) :
        id \in WireIDs, f \in AliveFields \cup { Field("groupName", <<97>>) } }
    \cup { Record(2, <<Field("category", S_Unknown), Field("alive", FALSE)>>),
           Record(2, <<Field("category", <<>>), Field("groupName", <<97>>)>>) }

WireRecords == PlainRecords \cup NewRecords

\* the records a truncated message ends with: between them they have every
\* kind of token (ID, tag, string length, string bytes, one-byte value)
LastRecords ==
    { Record(2, <<Field("category", S_Aircraft), Field("groupName", <<97>>)>>),
      Record(1, <<Field("alive", FALSE)>>) }

Message(t, recs) == [time |-> t, recs |-> recs]

Messages ==
    { Message(t, <<>>) : t \in WireTimes }
    \cup { Message(t, <<r>>) : t \in WireTimes, r \in WireRecords }
    \cup { Message(258, <<r1, r2>>) : r1 \in WireRecords, r2 \in WireRecords }

\* the first n bytes of the encoding of m
Buffer(m, n) ==
    [kind |-> "buffer", time |-> m.time, recs |-> m.recs, cut |-> Len(Encode(m)) - n,
     bytes |-> SubSeq(Encode(m), 1, n)]

\* m cut at every byte of its last record (of its timestamp, if it has no record)
Truncations(m) ==
    LET whole == Len(Encode(m))
        from  == IF m.recs = <<>> THEN 0
                 ELSE whole - Len(RecordBytes(m.recs[Len(m.recs)]))
    IN  { Buffer(m, n) : n \in from..(whole - 1) }

\* the buffers: the encoded messages, and the messages that end with one of
\* LastRecords truncated at every byte of it
Buffers ==
    { Buffer(m, Len(Encode(m))) : m \in Messages }
    \cup UNION { Truncations(Message(t, <<>>)) : t \in WireTimes }
    \cup UNION { Truncations(Message(258, <<r>>)) : r \in LastRecords }
    \cup UNION { UNION { Truncations(Message(258, <<r1, r2>>)) : r1 \in WireRecords } : r2 \in LastRecords }

\* the transport delivers a buffer
Deliver(b) ==
    /\ inflight.kind = None
    /\ ticks < MaxTicks
    /\ inflight' = b
    /\ ticks' = ticks + 1
    /\ UNCHANGED <<units, groups, hide, last, requestDetectionUpdate, app, dcs, ports, sent, mission, ui>>

\* ... and UnitsManager.update decodes it, then runs the detection step
\* if the call got that far
Update ==
    /\ inflight.kind = "buffer"
    /\ \E r \in {update(units, groups, inflight.bytes, hide)} :
         \E d \in {IF r.how = "done"
                   THEN updateDetection(r.units, requestDetectionUpdate, app)
                   ELSE [units |-> r.units, weapons |-> app.weapons,
                         request |-> requestDetectionUpdate, ran |-> FALSE]} :
           /\ units' = d.units
           /\ groups' = r.groups
           /\ requestDetectionUpdate' = d.request
           /\ app' = [app EXCEPT !.weapons = d.weapons]
           /\ last' = [op |-> "update", threw |-> (r.how = "throw"),
                       aborted |-> (r.how = "abort"), ret |-> r.ret,
                       created |-> r.trace.created, detected |-> d.ran]
    /\ inflight' = Idle
    /\ UNCHANGED <<hide, ticks, dcs, ports, sent, mission, ui>>

Next ==
    \/ \E b \in Buffers : Deliver(b)
    \/ Update

Spec == Init /\ [][Next]_vars

(***************************************************************************)
(* Detection: units of two coalitions and a weapon, their contact lists,   *)
(* the contactsUpdated event, the command mode, and updates that complete, *)
(* return early or change the alive flag.                                  *)
(***************************************************************************)
DetectIDs == {1, 2}

WeaponIDs == {3}

Contact(ID, detectionMethod) == [ID |-> ID, detectionMethod |-> detectionMethod]

\* contact lists: a repeated contact, two methods for one target, a unit
\* and a weapon as targets, and an ID in neither table (9)
ContactLists ==
    { <<>>,
      <<Contact(3, 1), Contact(3, 1)>>,
      <<Contact(3, 2), Contact(2, 1)>>,
      <<Contact(9, 1), Contact(1, 2), Contact(3, 1)>> }

CommandModes == {GAME_MASTER, BLUE_COMMANDER}

\* the updates that set the coalition of a new unit
CoalitionUpdates ==
    { [EmptyUpdate EXCEPT !.missionData = [coalition |-> c]] : c \in {"blue", "red"} }

\* an empty message, and the alive flag of unit 1 or 2 (an early return
\* when the unit is not in the table)
DetectBuffers ==
    { Buffer(m, Len(Encode(m))) :
        m \in { Message(1, <<>>) } \cup
              { Message(1, <<Record(id, <<Field("alive", FALSE)>>)>>) : id \in DetectIDs } }

\* the unit's contact list is replaced (a server update of its contacts)
SetContacts(id, contacts) ==
    /\ id \in DOMAIN units
    /\ units' = [units EXCEPT ![id].contacts = contacts]
    /\ last' = UnitCall("setContacts", id, FALSE)
    /\ UNCHANGED <<groups, hide, inflight, ticks, requestDetectionUpdate, app, dcs, ports, sent, mission, ui>>

\* the listener of the contactsUpdated event
ContactsUpdated ==
    /\ requestDetectionUpdate' = TRUE
    /\ last' = UnitCall("contactsUpdated", 0, FALSE)
    /\ UNCHANGED <<units, groups, hide, inflight, ticks, app, dcs, ports, sent, mission, ui>>

\* the mission's command mode changes; the listener of
\* commandModeOptionsChanged recomputes the visibility of every unit
SetCommandMode(mode) ==
    /\ app' = [app EXCEPT !.commandMode = mode]
    /\ units' = [id \in DOMAIN units |-> updateVisibility(units[id], hide)]
    /\ last' = UnitCall("commandModeOptionsChanged", 0, FALSE)
    /\ UNCHANGED <<groups, hide, inflight, ticks, requestDetectionUpdate, dcs, ports, sent, mission, ui>>

\* the weapons manager registers a weapon
AddWeapon(ID) ==
    /\ ID \notin DOMAIN app.weapons
    /\ app' = [app EXCEPT !.weapons = Extend(app.weapons, ID, <<>>)]
    /\ last' = UnitCall("addWeapon", 0, FALSE)
    /\ UNCHANGED <<units, groups, hide, inflight, ticks, requestDetectionUpdate, dcs, ports, sent, mission, ui>>

NextDetect ==
    \/ \E id \in DetectIDs, d \in CoalitionUpdates : NewUnit(id, "Aircraft", d)
    \/ \E id \in DetectIDs, c \in ContactLists : SetContacts(id, c)
    \/ ContactsUpdated
    \/ \E mode \in CommandModes : SetCommandMode(mode)
    \/ \E ID \in WeaponIDs : AddWeapon(ID)
    \/ \E b \in DetectBuffers : Deliver(b)
    \/ Update

SpecDetect == Init /\ [][NextDetect]_vars

(***************************************************************************)
(* Merging: two updates with disjoint fields are applied to fresh units    *)
(* in both orders, as their union, once and twice.                         *)
(***************************************************************************)
\* the fields of update d, as pairs of sub-record and key
fieldsOf(d) == UNION { { <<s, k>> : k \in DOMAIN d[s] } : s \in DOMAIN d }

disjoint(a, b) == fieldsOf(a) \cap fieldsOf(b) = {}

\* the single update that holds the fields of a and of b
unionUpdate(a, b) ==
    [s \in DOMAIN a \cup DOMAIN b |->
        IF s \notin DOMAIN b THEN a[s]
        ELSE IF s \notin DOMAIN a THEN b[s]
        ELSE a[s] @@ b[s]]

\* a field of each of four sub-records
MergeKeys ==
    [ baseData |-> {"alive"}, flightData |-> {"heading"}, missionData |-> {"coalition"},
      formationData |-> {}, taskData |-> {}, optionsData |-> {"ROE"} ]

MergeUpdates == UpdatesOver(MergeKeys)

MergePairs == { p \in MergeUpdates \X MergeUpdates : disjoint(p[1], p[2]) }

\* the ways the updates are applied, each to a fresh unit of its own
MergeRuns == {"ab", "ba", "once", "twice", "first"}

freshUnit(ID) == construct(ID, "Aircraft", EmptyUpdate, {})

\* the server has two updates with disjoint fields
InitMerge ==
    /\ units = NoUnits
    /\ groups = NoGroups
    /\ hide = {}
    /\ ticks = 0
    /\ requestDetectionUpdate = FALSE
    /\ app = [commandMode |-> GAME_MASTER, weapons |-> NoWeapons]
    /\ dcs = NoScan
    /\ ports = NoPorts
    /\ sent = NoRequests
    /\ mission = SetupPhase
    /\ ui = Quiet
    /\ last = [op |-> "init", id |-> 0, threw |-> FALSE,
               preSelected |-> FALSE, preAlive |-> FALSE, preHidden |-> FALSE]
    /\ \E p \in MergePairs : inflight = [kind |-> "pair", a |-> p[1], b |-> p[2]]

\* the updates are applied with Unit.setData to fresh units
ApplyPair ==
    /\ inflight.kind = "pair"
    /\ LET a == inflight.a
           b == inflight.b
       IN  units' = [run \in MergeRuns |->
                CASE run = "ab"    -> setData(setData(freshUnit(1), a, hide), b, hide)
                  [] run = "ba"    -> setData(setData(freshUnit(1), b, hide), a, hide)
                  [] run = "once"  -> setData(freshUnit(1), unionUpdate(a, b), hide)
                  [] run = "twice" -> setData(setData(freshUnit(1), a, hide), a, hide)
                  [] run = "first" -> setData(freshUnit(1), a, hide)]
    /\ last' = [op |-> "merge", id |-> 0,
                threw |-> (setDataThrows(inflight.a) \/ setDataThrows(inflight.b)),
                preSelected |-> FALSE, preAlive |-> FALSE, preHidden |-> FALSE]
    /\ inflight' = Idle
    /\ UNCHANGED <<groups, hide, ticks, requestDetectionUpdate, app, dcs, ports, sent, mission, ui>>

NextMerge == ApplyPair

SpecMerge == InitMerge /\ [][NextMerge]_vars

(***************************************************************************)
(* UnitsManager: selection and hotgroups over a table of two units.        *)
(***************************************************************************)
ManagerIDs == {1, 2}

Hotgroups == {1, 2}

\* the server reports the death of a unit
DeathUpdates == { [baseData |-> [alive |-> FALSE], flightData |-> EmptyRec] }

\* an optional "units" argument: null, or an array of units of the table
Null == [given |-> FALSE, ids |-> <<>>]

Array(ids) == [given |-> TRUE, ids |-> ids]

\* the arrays of units without repetition
UnitArrays ==
    { Array(ids) : ids \in {<<>>} \cup { <<a>> : a \in ManagerIDs }
                            \cup { <<p[1], p[2]>> :
                                      p \in { q \in ManagerIDs \X ManagerIDs : q[1] # q[2] } } }

Range(ids) == { ids[i] : i \in DOMAIN ids }

\* the elements of a set of IDs in the order of Object.entries / for-in
RECURSIVE inOrder(_)
inOrder(IDs) ==
    IF IDs = {} THEN <<>>
    ELSE LET least == CHOOSE x \in IDs : \A y \in IDs : x <= y
         IN  <<least>> \o inOrder(IDs \ {least})

\* UnitsManager.getSelectedUnits() without options
getSelectedUnits(U) == inOrder({ id \in DOMAIN U : getSelected(U[id]) })

\* UnitsManager.getUnitsByHotgroup
getUnitsByHotgroup(U, hotgroup) ==
    inOrder({ id \in DOMAIN U : getAlive(U[id]) /\ getHotgroup(U[id]) = hotgroup })

\* units.forEach(unit => unit.setHotgroup(hotgroup))
setHotgroupOfEach(U, ids, hotgroup) ==
    [id \in DOMAIN U |-> IF id \in Range(ids) THEN setHotgroup(U[id], hotgroup) ELSE U[id]]

\* UnitsManager.addToHotgroup(hotgroup, units)
addToHotgroup(U, hotgroup, arg) ==
    LET ids == IF ~arg.given THEN getSelectedUnits(U) ELSE arg.ids
    IN  setHotgroupOfEach(U, ids, hotgroup)

\* UnitsManager.setHotgroup(hotgroup, units): the members of the hotgroup
\* that are alive leave it, then addToHotgroup(hotgroup) is called without
\* the units
\* faulty variant: the members of the hotgroup are left in it
setHotgroupOfUnits_KeepsMembers(U, hotgroup, arg) ==
    addToHotgroup(U, hotgroup, Null)

setHotgroupOfUnits(U, hotgroup, arg) ==
    addToHotgroup(setHotgroupOfEach(U, getUnitsByHotgroup(U, hotgroup), 0), hotgroup, Null)

\* what is recorded of a call of the manager
ManagerCall(op, id, hotgroup, arg, flag) ==
    [ op |-> op, id |-> id, threw |-> FALSE, hotgroup |-> hotgroup,
      arg |-> arg, flag |-> flag,
      preSelected |-> FALSE, preAlive |-> FALSE, preHidden |-> FALSE ]

\* the table after the server has reported two units, the second of them
\* an aircraft or a missile
InitSelect ==
    /\ \E c \in UnitClasses :
          units = [id \in ManagerIDs |->
                      construct(id, IF id = 2 THEN c ELSE "Aircraft", EmptyUpdate, {})]
    /\ groups = NoGroups
    /\ hide = {}
    /\ inflight = Idle
    /\ ticks = 0
    /\ requestDetectionUpdate = FALSE
    /\ app = [commandMode |-> GAME_MASTER, weapons |-> NoWeapons]
    /\ dcs = NoScan
    /\ ports = NoPorts
    /\ sent = NoRequests
    /\ mission = SetupPhase
    /\ ui = Quiet
    /\ last = ManagerCall("init", 0, 0, Null, FALSE)

\* UnitsManager.selectUnit(ID, deselectAllUnits)
ManagerSelectUnit(ID, deselectAll) ==
    /\ LET others == { id \in DOMAIN units : getSelected(units[id]) /\ id # ID }
           U1 == IF deselectAll
                 THEN [id \in DOMAIN units |->
                          IF id \in others THEN setSelected(units[id], FALSE) ELSE units[id]]
                 ELSE units
       IN  /\ units' = selectEach(U1, {ID})
           /\ last' = [ManagerCall("selectUnit", ID, 0, Null, deselectAll)
                          EXCEPT !.preSelected = (others # {})]
    /\ UNCHANGED <<groups, hide, inflight, ticks, requestDetectionUpdate, app, dcs, ports, sent, mission, ui>>

DeselectAllUnits ==
    /\ units' = deselectAllUnits(units)
    /\ last' = ManagerCall("deselectAllUnits", 0, 0, Null, FALSE)
    /\ UNCHANGED <<groups, hide, inflight, ticks, requestDetectionUpdate, app, dcs, ports, sent, mission, ui>>

\* UnitsManager.selectUnitsByHotgroup(hotgroup, deselectAllUnits)
ManagerSelectUnitsByHotgroup(hotgroup, deselectAll) ==
    /\ LET U1 == IF deselectAll THEN deselectAllUnits(units) ELSE units
       IN  units' = selectEach(U1, Range(getUnitsByHotgroup(U1, hotgroup)))
    /\ last' = ManagerCall("selectUnitsByHotgroup", 0, hotgroup, Null, deselectAll)
    /\ UNCHANGED <<groups, hide, inflight, ticks, requestDetectionUpdate, app, dcs, ports, sent, mission, ui>>

SetHotgroup(hotgroup, arg) ==
    /\ units' = setHotgroupOfUnits(units, hotgroup, arg)
    /\ last' = ManagerCall("setHotgroup", 0, hotgroup, arg, FALSE)
    /\ UNCHANGED <<groups, hide, inflight, ticks, requestDetectionUpdate, app, dcs, ports, sent, mission, ui>>

AddToHotgroup(hotgroup, arg) ==
    /\ units' = addToHotgroup(units, hotgroup, arg)
    /\ last' = ManagerCall("addToHotgroup", 0, hotgroup, arg, FALSE)
    /\ UNCHANGED <<groups, hide, inflight, ticks, requestDetectionUpdate, app, dcs, ports, sent, mission, ui>>

\* the server's update with alive = false is applied to a unit
Dies(id) ==
    /\ id \in DOMAIN units
    /\ \E d \in DeathUpdates : units' = [units EXCEPT ![id] = setData(@, d, hide)]
    /\ last' = ManagerCall("setData", id, 0, Null, FALSE)
    /\ UNCHANGED <<groups, hide, inflight, ticks, requestDetectionUpdate, app, dcs, ports, sent, mission, ui>>

NextSelect ==
    \/ \E ID \in ManagerIDs \cup {3}, b \in BOOLEAN : ManagerSelectUnit(ID, b)
    \/ DeselectAllUnits
    \/ \E h \in Hotgroups, b \in BOOLEAN : ManagerSelectUnitsByHotgroup(h, b)
    \/ \E h \in Hotgroups, arg \in {Null} \cup UnitArrays : SetHotgroup(h, arg)
    \/ \E h \in Hotgroups, arg \in {Null} \cup UnitArrays : AddToHotgroup(h, arg)
    \/ \E id \in ManagerIDs : Dies(id)

SpecSelect == InitSelect /\ [][NextSelect]_vars

(***************************************************************************)
(* UnitsManager: the command operations on the selected units, and delete  *)
(* with its confirmations.                                                 *)
(***************************************************************************)
\* the number of units from which delete asks for the slow-delete dialog
\* (scaled to the table of two units)
DELETE_SLOW_THRESHOLD == 2

\* Map.getIsUnitProtected: P is the set of the units the map protects
getIsUnitProtected(P, u) == u.ID \in P

\* the filter of "onlyOnePerGroup": the first unit of every group name
onePerGroup(U, ids) ==
    SelectSeq(ids, LAMBDA id :
        \A other \in Range(ids) :
            other < id => getGroupName(U[other]) # getGroupName(U[id]))

\* UnitsManager.getSelectedUnits(options)
getSelectedUnitsWith(U, P, options) ==
    LET kept == inOrder({ id \in DOMAIN U :
                    /\ getSelected(U[id])
                    /\ ~(options.excludeHumans /\ getHuman(U[id]))
                    /\ ~(options.excludeProtected /\ getIsUnitProtected(P, U[id])) })
    IN  IF options.onlyOnePerGroup THEN onePerGroup(U, kept) ELSE kept

\* the options of the command operations, of the two shots operations, and
\* of delete
CommandOptions ==
    [excludeHumans |-> TRUE, excludeProtected |-> TRUE, onlyOnePerGroup |-> TRUE]

ShotsOptions ==
    [excludeHumans |-> TRUE, excludeProtected |-> FALSE, onlyOnePerGroup |-> TRUE]

DeleteOptions ==
    [excludeHumans |-> FALSE, excludeProtected |-> TRUE, onlyOnePerGroup |-> FALSE]

\* UnitsManager.segregateUnits
segregateUnits(U, P, ids) ==
    LET human == SelectSeq(ids, LAMBDA id : getHuman(U[id]))
        olympus == SelectSeq(ids, LAMBDA id :
                        ~getHuman(U[id]) /\ isControlledByOlympus(U[id]))
        dcsProtected == SelectSeq(ids, LAMBDA id :
                        /\ ~getHuman(U[id]) /\ ~isControlledByOlympus(U[id])
                        /\ getIsUnitProtected(P, U[id]))
        dcsUnprotected == SelectSeq(ids, LAMBDA id :
                        /\ ~getHuman(U[id]) /\ ~isControlledByOlympus(U[id])
                        /\ ~getIsUnitProtected(P, U[id]))
    IN  [controllable |-> dcsUnprotected \o human \o olympus,
         dcsProtected |-> dcsProtected, dcsUnprotected |-> dcsUnprotected,
         human |-> human, olympus |-> olympus]

\* "if (units === null) units = this.getSelectedUnits(options)" and
\* "units = segregatedUnits.controllable"
controllableUnits(U, P, arg, options) ==
    segregateUnits(U, P, IF arg.given THEN arg.ids
                         ELSE getSelectedUnitsWith(U, P, options)).controllable

\* a request of a unit to the server
Request(command, ID, immediate) ==
    [command |-> command, ID |-> ID, immediate |-> immediate]

\* units.forEach(unit => unit.<command>(...))
requestOfEach(command, ids, immediate) ==
    [i \in 1..Len(ids) |-> Request(command, ids[i], immediate)]

\* command operations that call one method of every controllable unit (the
\* bodies of the others, changeSpeed, setAltitude, refuel, bombPoint, ...,
\* differ in the method only)
UnitCommands == { "landAt", "setSpeed", "setROE" }

ShotsCommands == { "setShotsScatter", "setShotsIntensity" }

\* the requests of UnitsManager.<command>(..., units)
unitCommand(U, P, command, arg) ==
    requestOfEach(command,
        controllableUnits(U, P, arg,
            IF command \in ShotsCommands THEN ShotsOptions ELSE CommandOptions), FALSE)

\* UnitsManager.attackUnit / followUnit (ID, ..., units); Unit.attackUnit
\* and Unit.followUnit send nothing when the unit is the target
targetCommand(U, P, command, ID, arg) ==
    requestOfEach(command,
        SelectSeq(controllableUnits(U, P, arg, CommandOptions), LAMBDA id : id # ID),
        FALSE)

\* UnitsManager.getUnitByID(unit.getLeaderID()) and "leader &&
\* leader.getSelected()"
leaderSelected(U, id) ==
    /\ getLeaderID(U[id]) \in DOMAIN U
    /\ getSelected(U[getLeaderID(U[id])])

\* the unit whose addDestination is called for the controllable unit id:
\* its leader, if it follows a leader that is selected
destinationTaker(U, id) ==
    IF getState(U[id]) = "follow" /\ leaderSelected(U, id)
    THEN getLeaderID(U[id]) ELSE id

\* UnitsManager.addDestination(latlng, false, 0, units): the units whose
\* addDestination is called, in the order of the calls
destinationTakers(U, P, arg) ==
    LET ids == controllableUnits(U, P, arg, CommandOptions)
    IN  [i \in 1..Len(ids) |-> destinationTaker(U, ids[i])]

\* the number of calls of addDestination on unit id
RECURSIVE count(_, _)
count(ids, id) ==
    IF ids = <<>> THEN 0
    ELSE (IF Head(ids) = id THEN 1 ELSE 0) + count(Tail(ids), id)

RECURSIVE addDestinations(_, _, _)
addDestinations(u, latlng, n) ==
    IF n = 0 THEN u ELSE addDestinations(addDestination(u, latlng), latlng, n - 1)

\* "units.some(unit => unit.getHuman() === true)"
selectionContainsAHuman(U, ids) == \E id \in Range(ids) : getHuman(U[id])

\* doDelete(explosion, explosionType, immediate)
doDelete(ids, immediate) == requestOfEach("delete", ids, immediate)

\* the then() of the promise of the slow-delete dialog
\* faulty variant: any button of the dialog deletes
dialogAction_AnyButton(ids, action) ==
    IF action = "delete-immediate" THEN doDelete(ids, TRUE) ELSE doDelete(ids, FALSE)

dialogAction(ids, action) ==
    CASE action = "delete-slow"      -> doDelete(ids, FALSE)
      [] action = "delete-immediate" -> doDelete(ids, TRUE)
      [] OTHER                       -> <<>>

\* what is recorded of a command operation
CommandCall(op, arg, target, ctl) ==
    [ op |-> op, id |-> target, threw |-> FALSE, hotgroup |-> 0, arg |-> Null,
      given |-> arg.given, flag |-> FALSE, preSelected |-> FALSE, preAlive |-> FALSE,
      preHidden |-> FALSE, units |-> ctl ]

\* the server has reported two units of one or of two groups; the first may
\* follow the second; each is flown by a human, controlled by Olympus or
\* by DCS, and the map protects some of them
CommandTables ==
    { [id \in ManagerIDs |->
          [construct(id, "Aircraft", EmptyUpdate, {}) EXCEPT
              !.human = c[1][id], !.controlledByOlympus = c[2][id],
              !.state = IF id = 1 THEN st ELSE "idle",
              !.data.formationData.leaderID = IF id = 1 THEN 2 ELSE 0,
              !.data.baseData.groupName = IF id = 1 THEN <<97>> ELSE g]] :
        c \in { hf \in [ManagerIDs -> BOOLEAN] \X [ManagerIDs -> BOOLEAN] :
                    ~(hf[1][1] /\ hf[2][1]) },
        st \in {"idle", "follow"}, g \in {<<97>>, <<98>>} }

InitCommand ==
    /\ units \in CommandTables
    /\ groups = NoGroups
    /\ hide = {}
    /\ inflight = Idle
    /\ ticks = 0
    /\ requestDetectionUpdate = FALSE
    /\ app = [commandMode |-> GAME_MASTER, weapons |-> NoWeapons]
    /\ dcs = NoScan
    /\ ports = NoPorts
    /\ sent = NoRequests
    /\ mission = SetupPhase
    /\ \E P \in SUBSET ManagerIDs : ui = [Quiet EXCEPT !.protected = P]
    /\ last = CommandCall("init", Null, 0, <<>>)

\* a click on a unit: UnitsManager.selectUnit(ID, deselectAllUnits)
ClickUnit(ID, deselectAll) ==
    /\ LET others == { id \in DOMAIN units : getSelected(units[id]) /\ id # ID }
           U1 == IF deselectAll
                 THEN [id \in DOMAIN units |->
                          IF id \in others THEN setSelected(units[id], FALSE) ELSE units[id]]
                 ELSE units
       IN  units' = selectEach(U1, {ID})
    /\ sent' = NoRequests
    /\ last' = CommandCall("selectUnit", Null, ID, <<>>)
    /\ UNCHANGED <<groups, hide, inflight, ticks, requestDetectionUpdate, app, dcs,
                   ports, mission, ui>>

UnitCommand(command, arg) ==
    /\ sent' = unitCommand(units, ui.protected, command, arg)
    /\ last' = CommandCall(command, arg, 0,
                  controllableUnits(units, ui.protected, arg,
                      IF command \in ShotsCommands THEN ShotsOptions ELSE CommandOptions))
    /\ UNCHANGED <<units, groups, hide, inflight, ticks, requestDetectionUpdate, app,
                   dcs, ports, mission, ui>>

TargetCommand(command, ID, arg) ==
    /\ sent' = targetCommand(units, ui.protected, command, ID, arg)
    /\ last' = CommandCall(command, arg, ID,
                  controllableUnits(units, ui.protected, arg, CommandOptions))
    /\ UNCHANGED <<units, groups, hide, inflight, ticks, requestDetectionUpdate, app,
                   dcs, ports, mission, ui>>

\* UnitsManager.addDestination(latlng, false, 0, units)
ManagerAddDestination(latlng, arg) ==
    /\ LET takers == destinationTakers(units, ui.protected, arg)
       IN  /\ \A id \in Range(takers) :
                  Len(units[id].data.taskData.activePath.points) + count(takers, id)
                      <= MaxPath
           /\ units' = [id \in DOMAIN units |->
                          addDestinations(units[id], latlng, count(takers, id))]
           /\ sent' = requestOfEach("addDestination", takers, FALSE)
    /\ last' = CommandCall("addDestination", arg, 0,
                  controllableUnits(units, ui.protected, arg, CommandOptions))
    /\ UNCHANGED <<groups, hide, inflight, ticks, requestDetectionUpdate, app, dcs,
                   ports, mission, ui>>

\* UnitsManager.delete(false, "", units); confirmed is the answer to
\* confirm(), asked when the units contain a human
Delete(arg, confirmed) ==
    /\ LET ids == controllableUnits(units, ui.protected, arg, DeleteOptions)
           stops == \/ ids = <<>>
                    \/ selectionContainsAHuman(units, ids) /\ ~confirmed
           slow == ~stops /\ Len(ids) >= DELETE_SLOW_THRESHOLD
       IN  /\ slow => Len(ui.dialogs) < MaxDialogs
           /\ sent' = IF stops \/ slow THEN <<>> ELSE doDelete(ids, FALSE)
           /\ ui' = IF slow
                    THEN [ui EXCEPT !.dialogs = Append(@, [units |-> ids, button |-> None])]
                    ELSE ui
           /\ last' = [CommandCall("delete", arg, 0, ids) EXCEPT !.flag = confirmed]
    /\ UNCHANGED <<units, groups, hide, inflight, ticks, requestDetectionUpdate, app,
                   dcs, ports, mission>>

DialogActions == {"delete-slow", "delete-immediate", "cancel"}

\* a click on a button of the slow-delete dialog: the listener of every
\* delete call that waits remembers the button
ClickButton(action) ==
    /\ ui.dialogs # <<>>
    /\ ui' = [ui EXCEPT !.dialogs =
                [k \in DOMAIN ui.dialogs |-> [ui.dialogs[k] EXCEPT !.button = action]]]
    /\ sent' = NoRequests
    /\ last' = CommandCall("click", Null, 0, <<>>)
    /\ UNCHANGED <<units, groups, hide, inflight, ticks, requestDetectionUpdate, app,
                   dcs, ports, mission>>

\* the interval of the k-th waiting delete call sees the button: the
\* promise resolves with its action and the then() runs
DialogResolves(k) ==
    /\ k \in DOMAIN ui.dialogs
    /\ ui.dialogs[k].button # None
    /\ sent' = dialogAction(ui.dialogs[k].units, ui.dialogs[k].button)
    /\ ui' = [ui EXCEPT !.dialogs =
                SubSeq(ui.dialogs, 1, k - 1) \o SubSeq(ui.dialogs, k + 1, Len(ui.dialogs))]
    /\ last' = [CommandCall("dialog", Null, 0, ui.dialogs[k].units)
                   EXCEPT !.arg = [given |-> FALSE, ids |-> <<>>,
                                   action |-> ui.dialogs[k].button]]
    /\ UNCHANGED <<units, groups, hide, inflight, ticks, requestDetectionUpdate, app,
                   dcs, ports, mission>>

\* the operations are called on the selected units (units = null)
NextCommand ==
    \/ \E ID \in ManagerIDs, b \in BOOLEAN : ClickUnit(ID, b)
    \/ \E c \in UnitCommands \cup ShotsCommands : UnitCommand(c, Null)
    \/ \E c \in {"attackUnit", "followUnit"}, ID \in ManagerIDs :
          TargetCommand(c, ID, Null)
    \/ \E latlng \in Destinations : ManagerAddDestination(latlng, Null)
    \/ \E confirmed \in BOOLEAN : Delete(Null, confirmed)
    \/ \E action \in DialogActions : ClickButton(action)
    \/ \E k \in 1..MaxDialogs : DialogResolves(k)

SpecCommand == InitCommand /\ [][NextCommand]_vars

(***************************************************************************)
(* UnitsManager: the listeners of "unitSelection" and "unitDeselection",   *)
(* which Unit.setSelected dispatches, and their timers.  ui.dispatched     *)
(* holds the events that the last step dispatched on the document.         *)
(***************************************************************************)
IDLE == "idle"

MOVE_UNIT == "move-unit"

\* document.dispatchEvent(new CustomEvent(type, { detail }))
dispatchEvent(E, type, detail) ==
    [E EXCEPT !.dispatched = Append(@, [type |-> type, detail |-> detail])]

\* UnitsManager.#onUnitSelection; U is the table when the event arrives
\* faulty variant: a timer is started for every event
onUnitSelection_EveryEvent(U, E) ==
    IF Len(getSelectedUnits(U)) > 0
    THEN [E EXCEPT !.mapState = MOVE_UNIT,
                   !.selectionTimers = @ + 1,
                   !.selectionEventDisabled = TRUE]
    ELSE dispatchEvent([E EXCEPT !.mapState = IDLE], "clearSelection", <<>>)

onUnitSelection(U, E) ==
    IF Len(getSelectedUnits(U)) > 0
    THEN IF ~E.selectionEventDisabled
         THEN [E EXCEPT !.mapState = MOVE_UNIT,
                        !.selectionTimers = @ + 1,
                        !.selectionEventDisabled = TRUE]
         ELSE E
    ELSE dispatchEvent([E EXCEPT !.mapState = IDLE], "clearSelection", <<>>)

\* UnitsManager.#onUnitDeselection
onUnitDeselection(U, E) ==
    IF Len(getSelectedUnits(U)) = 0
    THEN dispatchEvent([E EXCEPT !.mapState = IDLE], "clearSelection", <<>>)
    ELSE IF ~E.deselectionEventDisabled
         THEN [E EXCEPT !.deselectionTimers = @ + 1,
                        !.deselectionEventDisabled = TRUE]
         ELSE E

\* the table and the listeners' state during an operation; selections and
\* deselections tell whether a unitSelection (unitDeselection) event has
\* arrived while a unit was selected
Doing(U, E) == [units |-> U, ui |-> E, selections |-> FALSE, deselections |-> FALSE]

\* the listeners run inside Unit.setSelected, when the selection of the
\* unit has changed from "before"
listeners(S, U, before, id) ==
    IF getSelected(U[id]) = before THEN [S EXCEPT !.units = U]
    ELSE IF getSelected(U[id])
    THEN [S EXCEPT !.units = U, !.ui = onUnitSelection(U, S.ui),
                   !.selections = @ \/ Len(getSelectedUnits(U)) > 0]
    ELSE [S EXCEPT !.units = U, !.ui = onUnitDeselection(U, S.ui),
                   !.deselections = @ \/ Len(getSelectedUnits(U)) > 0]

\* this.#units[ID]?.setSelected(selected)
unitSetSelected(S, id, selected) ==
    IF id \notin DOMAIN S.units THEN S
    ELSE listeners(S, [S.units EXCEPT ![id] = setSelected(@, selected)],
                   getSelected(S.units[id]), id)

\* ids.forEach(unit => unit.setSelected(selected))
RECURSIVE setSelectedOfEach(_, _, _)
setSelectedOfEach(S, ids, selected) ==
    IF ids = <<>> THEN S
    ELSE setSelectedOfEach(unitSetSelected(S, Head(ids), selected), Tail(ids), selected)

\* what is recorded of an operation on the selection
EventCall(op, id, S) ==
    [ op |-> op, id |-> id, threw |-> FALSE, hotgroup |-> 0, arg |-> Null,
      flag |-> FALSE, preSelected |-> FALSE, preAlive |-> FALSE, preHidden |-> FALSE,
      selections |-> S.selections, deselections |-> S.deselections ]

\* the listeners' state when an operation or a timer starts
Listening == [ui EXCEPT !.dispatched = <<>>]

InitEvents ==
    /\ units = [id \in ManagerIDs |-> construct(id, "Aircraft", EmptyUpdate, {})]
    /\ groups = NoGroups
    /\ hide = {}
    /\ inflight = Idle
    /\ ticks = 0
    /\ requestDetectionUpdate = FALSE
    /\ app = [commandMode |-> GAME_MASTER, weapons |-> NoWeapons]
    /\ dcs = NoScan
    /\ ports = NoPorts
    /\ sent = NoRequests
    /\ mission = SetupPhase
    /\ ui = Quiet
    /\ last = EventCall("init", 0, Doing(units, ui))

Done(op, id, S) ==
    /\ units' = S.units
    /\ ui' = S.ui
    /\ last' = EventCall(op, id, S)
    /\ UNCHANGED <<groups, hide, inflight, ticks, requestDetectionUpdate, app, dcs,
                   ports, sent, mission>>

\* UnitsManager.selectUnit(ID, deselectAllUnits)
EventSelectUnit(ID, deselectAll) ==
    LET S0 == Doing(units, Listening)
        others == SelectSeq(getSelectedUnits(units), LAMBDA id : id # ID)
        S1 == IF deselectAll THEN setSelectedOfEach(S0, others, FALSE) ELSE S0
    IN  Done("selectUnit", ID, unitSetSelected(S1, ID, TRUE))

\* UnitsManager.deselectAllUnits()
EventDeselectAllUnits ==
    Done("deselectAllUnits", 0,
         setSelectedOfEach(Doing(units, Listening), inOrder(DOMAIN units), FALSE))

\* UnitsManager.deselectUnit(ID)
EventDeselectUnit(ID) ==
    Done("deselectUnit", ID, unitSetSelected(Doing(units, Listening), ID, FALSE))

\* the server reports the death of a unit: Unit.setData deselects it
EventDies(id) ==
    /\ id \in DOMAIN units
    /\ getAlive(units[id])
    /\ \E d \in DeathUpdates :
          Done("setData", id,
               listeners(Doing(units, Listening),
                         [units EXCEPT ![id] = setData(@, d, hide)],
                         getSelected(units[id]), id))

\* the callback of the timer of #onUnitSelection, 100 ms after it was set
SelectionTimerFires ==
    /\ ui.selectionTimers > 0
    /\ ui' = [dispatchEvent(Listening, "unitsSelection", getSelectedUnits(units))
                 EXCEPT !.selectionEventDisabled = FALSE,
                        !.selectionTimers = @ - 1]
    /\ last' = EventCall("unitsSelection", 0, Doing(units, ui))
    /\ UNCHANGED <<units, groups, hide, inflight, ticks, requestDetectionUpdate, app,
                   dcs, ports, sent, mission>>

\* the callback of the timer of #onUnitDeselection
DeselectionTimerFires ==
    /\ ui.deselectionTimers > 0
    /\ ui' = [dispatchEvent(Listening, "unitsDeselection", getSelectedUnits(units))
                 EXCEPT !.deselectionEventDisabled = FALSE,
                        !.deselectionTimers = @ - 1]
    /\ last' = EventCall("unitsDeselection", 0, Doing(units, ui))
    /\ UNCHANGED <<units, groups, hide, inflight, ticks, requestDetectionUpdate, app,
                   dcs, ports, sent, mission>>

NextEvents ==
    \/ \E ID \in ManagerIDs \cup {3}, b \in BOOLEAN : EventSelectUnit(ID, b)
    \/ EventDeselectAllUnits
    \/ \E ID \in ManagerIDs : EventDeselectUnit(ID)
    \/ \E id \in ManagerIDs : EventDies(id)
    \/ SelectionTimerFires
    \/ DeselectionTimerFires

SpecEvents == InitEvents /\ [][NextEvents]_vars

\* a timer that was set fires after its 100 ms
SpecEventsFair ==
    /\ SpecEvents
    /\ WF_vars(SelectionTimerFires)
    /\ WF_vars(DeselectionTimerFires)

(***************************************************************************)
(* UnitsManager.spawnUnits, with the mission manager, the unit databases   *)
(* and the server manager it calls.                                        *)
(***************************************************************************)
AirCategories == {"Aircraft", "Helicopter"}

SurfaceCategories == {"GroundUnit", "NavyUnit"}

\* the category arguments: the four of the branches and another
SpawnCategories == AirCategories \cup SurfaceCategories \cup {"Missile"}

Airbases == {"", "Kutaisi"}

\* a unit spawn table: the spawn points of each unit type in its database
SpawnTables == {<<>>, <<1>>, <<1, 2>>}

RECURSIVE sum(_)
sum(points) == IF points = <<>> THEN 0 ELSE Head(points) + sum(Tail(points))

\* "restrictSpawns && getRemainingSetupTime() < 0 && commandMode !== GAME_MASTER"
spawnsRestricted(M, A) ==
    M.restrictSpawns /\ M.remainingSetupTime < 0 /\ A.commandMode # GAME_MASTER

\* the early "return false" of the four branches
spawnRefused(category, airbase, restricted) ==
    CASE category \in AirCategories     -> airbase = "" /\ restricted
      [] category \in SurfaceCategories -> restricted
      [] OTHER                          -> FALSE

\* spawnPoints after the branches: the reduce over the units, or the 0 of
\* its declaration
spawnPointsOf(category, table) ==
    IF category \in AirCategories \cup SurfaceCategories THEN sum(table) ELSE 0

\* spawnFunction(): the request of the branch taken, or nothing for the
\* function of the declaration
spawnFunction(category, table, airbase, spawnPoints) ==
    CASE category = "Aircraft"   -> <<[command |-> "spawnAircrafts", units |-> table,
                                       airbase |-> airbase, spawnPoints |-> spawnPoints]>>
      [] category = "Helicopter" -> <<[command |-> "spawnHelicopters", units |-> table,
                                       airbase |-> airbase, spawnPoints |-> spawnPoints]>>
      [] category = "GroundUnit" -> <<[command |-> "spawnGroundUnits", units |-> table,
                                       airbase |-> "", spawnPoints |-> spawnPoints]>>
      [] category = "NavyUnit"   -> <<[command |-> "spawnNavyUnits", units |-> table,
                                       airbase |-> "", spawnPoints |-> spawnPoints]>>
      [] OTHER                   -> <<>>

unitSpawned(category, table, airbase) ==
    [type |-> "unitSpawned", category |-> category, unitSpawnTable |-> table,
     airbase |-> airbase]

\* UnitsManager.spawnUnits: what it returns, the mission manager after it,
\* the requests sent and the events dispatched
\* faulty variant: the points are spent before they are compared
spawnUnits_SpendsFirst(M, A, category, table, airbase) ==
    LET spawnPoints == spawnPointsOf(category, table)
        spent == [M EXCEPT !.spentSpawnPoints = spawnPoints]
    IN  IF spawnRefused(category, airbase, spawnsRestricted(M, A))
        THEN [result |-> FALSE, mission |-> M, sent |-> <<>>, dispatched |-> <<>>]
        ELSE IF spawnPoints <= M.availableSpawnPoints
        THEN [result |-> TRUE, mission |-> spent,
              sent |-> spawnFunction(category, table, airbase, spawnPoints),
              dispatched |-> <<unitSpawned(category, table, airbase)>>]
        ELSE [result |-> FALSE, mission |-> spent, sent |-> <<>>, dispatched |-> <<>>]

spawnUnits(M, A, category, table, airbase) ==
    LET spawnPoints == spawnPointsOf(category, table)
    IN  IF spawnRefused(category, airbase, spawnsRestricted(M, A))
        THEN [result |-> FALSE, mission |-> M, sent |-> <<>>, dispatched |-> <<>>]
        ELSE IF spawnPoints <= M.availableSpawnPoints
        THEN [result |-> TRUE,
              mission |-> [M EXCEPT !.spentSpawnPoints = spawnPoints],
              sent |-> spawnFunction(category, table, airbase, spawnPoints),
              dispatched |-> <<unitSpawned(category, table, airbase)>>]
        ELSE [result |-> FALSE, mission |-> M, sent |-> <<>>, dispatched |-> <<>>]

\* the mission manager in and after the setup phase, with and without the
\* restriction of spawns
MissionStates ==
    [ restrictSpawns : BOOLEAN, remainingSetupTime : {-1, 1},
      availableSpawnPoints : 0..MaxPoints, spentSpawnPoints : {0} ]

InitSpawn ==
    /\ units = NoUnits
    /\ groups = NoGroups
    /\ hide = {}
    /\ inflight = Idle
    /\ ticks = 0
    /\ requestDetectionUpdate = FALSE
    /\ \E mode \in CommandModes : app = [commandMode |-> mode, weapons |-> NoWeapons]
    /\ dcs = NoScan
    /\ ports = NoPorts
    /\ sent = NoRequests
    /\ mission \in MissionStates
    /\ ui = Quiet
    /\ last = [op |-> "init", id |-> 0, threw |-> FALSE, result |-> FALSE,
               category |-> "", units |-> <<>>, airbase |-> ""]

SpawnUnits(category, table, airbase) ==
    /\ LET r == spawnUnits(mission, app, category, table, airbase)
       IN  /\ mission' = r.mission
           /\ sent' = r.sent
           /\ ui' = [ui EXCEPT !.dispatched = r.dispatched]
           /\ last' = [op |-> "spawnUnits", id |-> 0, threw |-> FALSE,
                       result |-> r.result, category |-> category,
                       units |-> table, airbase |-> airbase]
    /\ UNCHANGED <<units, groups, hide, inflight, ticks, requestDetectionUpdate,
                   app, dcs, ports>>

\* the server reports the mission: the setup time runs out, the spawn
\* points left to the commander change
MissionUpdate(time, points) ==
    /\ mission' = [mission EXCEPT !.remainingSetupTime = time,
                                  !.availableSpawnPoints = points]
    /\ sent' = NoRequests
    /\ ui' = [ui EXCEPT !.dispatched = <<>>]
    /\ last' = [op |-> "mission", id |-> 0, threw |-> FALSE, result |-> FALSE,
                category |-> "", units |-> <<>>, airbase |-> ""]
    /\ UNCHANGED <<units, groups, hide, inflight, ticks, requestDetectionUpdate,
                   app, dcs, ports>>

NextSpawn ==
    \/ \E c \in SpawnCategories, t \in SpawnTables, a \in Airbases : SpawnUnits(c, t, a)
    \/ \E time \in {-1, 1}, points \in 0..MaxPoints : MissionUpdate(time, points)

SpecSpawn == InitSpawn /\ [][NextSpawn]_vars

(***************************************************************************)
(* DCSInstance.getInstances: asynchronous calls, each of which may wait    *)
(* for the scan of findInstances.                                          *)
(***************************************************************************)
\* "if (this.instances === null)"
mustScan(D) == D.instances = 0

\* DCSInstance.findInstances: the registry is asked; the promise is pending
findInstances(D, c) ==
    [D EXCEPT !.scans = @ + 1,
              !.calls[c] = [pc |-> "awaiting", result |-> D.scans + 1]]

\* call c runs up to its await, or to its return if there is a list
GetInstances(c) ==
    /\ dcs.calls[c].pc = "idle"
    /\ dcs' = IF mustScan(dcs)
              THEN findInstances(dcs, c)
              ELSE [dcs EXCEPT !.calls[c] = [pc |-> "returned", result |-> dcs.instances]]
    /\ UNCHANGED <<units, groups, hide, inflight, ticks, last, requestDetectionUpdate, app,
                   ports, sent, mission, ui>>

\* the registry answers the scan of call c: the promise resolves with the
\* new DCSInstance objects, the call assigns them and returns
\* this.instances
ScanResolves(c) ==
    /\ dcs.calls[c].pc = "awaiting"
    /\ dcs' = [dcs EXCEPT !.instances = dcs.calls[c].result,
                          !.calls[c].pc = "returned"]
    /\ UNCHANGED <<units, groups, hide, inflight, ticks, last, requestDetectionUpdate, app,
                   ports, sent, mission, ui>>

\* ... or the promise is rejected, and the call with it
ScanRejects(c) ==
    /\ dcs.calls[c].pc = "awaiting"
    /\ dcs' = [dcs EXCEPT !.calls[c] = [pc |-> "rejected", result |-> 0]]
    /\ UNCHANGED <<units, groups, hide, inflight, ticks, last, requestDetectionUpdate, app,
                   ports, sent, mission, ui>>

NextInstances ==
    \/ \E c \in CallIDs : GetInstances(c)
    \/ \E c \in CallIDs : ScanResolves(c)
    \/ \E c \in CallIDs : ScanRejects(c)

SpecInstances == Init /\ [][NextInstances]_vars

(***************************************************************************)
(* DCSInstance.setClientPort / setBackendPort: asynchronous calls on the   *)
(* instances of the list.  A call waits for checkPort, then for            *)
(* getInstances, and assigns the port when it is resumed.                  *)
(***************************************************************************)
PortValues == {3000, 3001, 3002}

PortKinds == {"client", "backend"}

\* the list was scanned once and DCSInstance.instances holds it
Scanned == [NoScan EXCEPT !.instances = 1, !.scans = 1]

Installed(c, b) == [installed |-> TRUE, clientPort |-> c, backendPort |-> b]

\* the instances found: the first has Olympus installed, the second may
\* have; no two installed instances share a port, and no instance has one
\* port for client and backend
InstanceLists ==
    { I \in [InstIDs -> {DefaultInstance}
                          \cup {Installed(c, b) : c, b \in PortValues}] :
        /\ I[1].installed
        /\ \A i \in InstIDs : I[i].clientPort # I[i].backendPort
        /\ \A i, j \in InstIDs :
              (i # j /\ I[i].installed /\ I[j].installed)
                  => {I[i].clientPort, I[i].backendPort}
                        \cap {I[j].clientPort, I[j].backendPort} = {} }

InitPorts ==
    /\ units = NoUnits
    /\ groups = NoGroups
    /\ hide = {}
    /\ inflight = Idle
    /\ ticks = 0
    /\ requestDetectionUpdate = FALSE
    /\ app = [commandMode |-> GAME_MASTER, weapons |-> NoWeapons]
    /\ dcs = Scanned
    /\ sent = NoRequests
    /\ mission = SetupPhase
    /\ ui = Quiet
    /\ last = [op |-> "init", id |-> 0, threw |-> FALSE,
               preSelected |-> FALSE, preAlive |-> FALSE, preHidden |-> FALSE]
    /\ \E I \in InstanceLists : ports = [NoPorts EXCEPT !.inst = I]

\* the callback of some() in checkClientPort / checkBackendPort for one
\* instance of the list: another installed instance has the port, or the
\* instance (this one, or one that is not installed) has it as its other
\* port
\* faulty variant: the ports of this instance itself are not looked at
portSelected_OthersOnly(instance, isThis, which, port) ==
    /\ ~isThis
    /\ instance.installed
    /\ (instance.clientPort = port \/ instance.backendPort = port)

portSelected(instance, isThis, which, port) ==
    IF ~isThis /\ instance.installed
    THEN instance.clientPort = port \/ instance.backendPort = port
    ELSE IF which = "client"
         THEN instance.backendPort = port
         ELSE instance.clientPort = port

\* (await DCSInstance.getInstances()).some(...)
some(I, this, which, port) ==
    \E i \in DOMAIN I : portSelected(I[i], i = this, which, port)

\* the assignment of setClientPort / setBackendPort
assignPort(I, this, which, port, free) ==
    IF ~free THEN I
    ELSE IF which = "client"
         THEN [I EXCEPT ![this].clientPort = port]
         ELSE [I EXCEPT ![this].backendPort = port]

\* instance.setClientPort(newPort) or instance.setBackendPort(newPort) is
\* called: checkPort is asked, and the call waits for its callback
SetPort(c, this, which, newPort) ==
    /\ ports.calls[c].pc = "idle"
    /\ \A d \in PortCallIDs : d < c => ports.calls[d].pc # "idle"
    /\ ports' = [ports EXCEPT !.calls[c] =
                    [pc |-> "checking", inst |-> this, which |-> which,
                     port |-> newPort, free |-> FALSE, result |-> FALSE]]
    /\ UNCHANGED <<units, groups, hide, inflight, ticks, last,
                   requestDetectionUpdate, app, dcs, sent, mission, ui>>

\* the callback of checkPort runs: a port in use resolves the promise
\* with false, a free port has the callback wait for getInstances
CheckPortCallback(c, portFree) ==
    /\ ports.calls[c].pc = "checking"
    /\ ports' = [ports EXCEPT !.calls[c].pc =
                    IF portFree THEN "awaiting" ELSE "checked"]
    /\ UNCHANGED <<units, groups, hide, inflight, ticks, last,
                   requestDetectionUpdate, app, dcs, sent, mission, ui>>

\* getInstances has returned the list: some() looks at the instances as
\* they are now, and the promise resolves with the answer
CheckResolves(c) ==
    /\ ports.calls[c].pc = "awaiting"
    /\ ~mustScan(dcs)
    /\ LET call == ports.calls[c]
       IN  ports' = [ports EXCEPT
                !.calls[c].pc = "checked",
                !.calls[c].free = ~some(ports.inst, call.inst, call.which, call.port)]
    /\ UNCHANGED <<units, groups, hide, inflight, ticks, last,
                   requestDetectionUpdate, app, dcs, sent, mission, ui>>

\* the call is resumed after its await: it assigns the port if the check
\* found it free, and returns
SetPortReturns(c) ==
    /\ ports.calls[c].pc = "checked"
    /\ LET call == ports.calls[c]
       IN  /\ ports' = [ports EXCEPT
                !.inst = assignPort(@, call.inst, call.which, call.port, call.free),
                !.calls[c].pc = "returned",
                !.calls[c].result = call.free]
           /\ last' = [op |-> "setPort", id |-> c, threw |-> FALSE,
                       preSelected |-> FALSE, preAlive |-> FALSE, preHidden |-> FALSE]
    /\ UNCHANGED <<units, groups, hide, inflight, ticks,
                   requestDetectionUpdate, app, dcs, sent, mission, ui>>

NextPorts ==
    \/ \E c \in PortCallIDs, this \in InstIDs, which \in PortKinds, p \in PortValues :
          SetPort(c, this, which, p)
    \/ \E c \in PortCallIDs, portFree \in BOOLEAN : CheckPortCallback(c, portFree)
    \/ \E c \in PortCallIDs : CheckResolves(c)
    \/ \E c \in PortCallIDs : SetPortReturns(c)

SpecPorts == InitPorts /\ [][NextPorts]_vars

(***************************************************************************)
(* Properties                                                              *)
(***************************************************************************)
\* the transition is a Unit.setData call that applies the update in flight
IsApplyData == inflight.kind = "json" /\ inflight'.kind = None

\* C1: after every Unit.setData(data), a field contained in the
\* corresponding sub-record of data holds the supplied value and every
\* other field holds the value it had before the call.
C1_DiffMerge ==
    [][IsApplyData =>
        \A s \in SubRecords : \A k \in DOMAIN DefaultData[s] :
            units'[inflight.id].data[s][k] =
                IF contains(inflight.data, s, k) THEN inflight.data[s][k]
                ELSE units[inflight.id].data[s][k]]_vars

\* C7: a unit that is not alive is not selected (SpecUnit: any sequence of
\* setData, setSelected, visibility toggles and timers).
C7_DeadNotSelected ==
    \A id \in DOMAIN units : ~getAlive(units[id]) => ~getSelected(units[id])

\* a setData call has just set alive=false on a selected, alive unit
C7_Witness ==
    /\ last.op = "setData"
    /\ last.id \in DOMAIN units
    /\ last.preSelected /\ last.preAlive
    /\ ~getAlive(units[last.id])
    /\ ~getSelected(units[last.id])

\* C8: when a selected unit becomes hidden and the step leaves it selected,
\* its selection is cleared without a user action or a server update, that
\* is, one of its deselect timeouts is pending after the step.
C8_HiddenSelectionCleared ==
    [][\A id \in DOMAIN units :
          ( /\ id \in DOMAIN units'
            /\ getSelected(units[id]) /\ ~getHidden(units[id])
            /\ getHidden(units'[id]) /\ getSelected(units'[id]) )
          => units'[id].timers > 0]_vars

isWeapon(u) == u.class \in WeaponCategories

IsUpdate == inflight.kind = "buffer" /\ inflight'.kind = None

\* what that call does, computed in the state before it
Decoded == update(units, groups, inflight.bytes, hide)

\* the first tag read for an ID that was not in the table is the category
categoryFirst(e) == e.tag = DataIndexes.category

\* ... and the category string was read and names a class
recognisedCategory(e) ==
    categoryFirst(e) /\ e.hasCategory /\ getConstructor(e.category) # None

\* a first tag other than the category ends the call there: it is the last
\* thing read, and the ID is not in the table afterwards
stopsAtOtherTag(r, i) ==
    LET e == r.trace.unknown[i]
    IN  ~categoryFirst(e) =>
            /\ r.how = "abort"
            /\ i = Len(r.trace.unknown)
            /\ r.seek = e.pos + 5
            /\ e.ID \notin DOMAIN r.units

\* C2 as stated: in a call of update that returns, an ID that is not in the
\* table is added if and only if the first tag read for it is the category;
\* any other first tag stops decoding at once and the ID is not added.
C2_AddedIffCategoryFirst ==
    [][IsUpdate =>
        LET r == Decoded
        IN  r.how # "throw" =>
              \A i \in DOMAIN r.trace.unknown :
                  /\ (r.trace.unknown[i].ID \in DOMAIN units')
                         <=> categoryFirst(r.trace.unknown[i])
                  /\ stopsAtOtherTag(r, i)]_vars

\* C2 amended: an ID that is not in the table is added during the call if
\* and only if, at one of its occurrences, the first tag read for it is the
\* category and the category string is read completely and is one of the
\* six recognised categories; any other first tag stops decoding at once
\* and the ID is not added.
C2_AddedIffRecognisedCategory ==
    [][IsUpdate =>
        LET r == Decoded
            seen == { r.trace.unknown[i].ID : i \in DOMAIN r.trace.unknown }
        IN  /\ \A ID \in seen \cup (DOMAIN units' \ DOMAIN units) :
                  (ID \in DOMAIN units') <=>
                      \E i \in DOMAIN r.trace.unknown :
                          r.trace.unknown[i].ID = ID /\ recognisedCategory(r.trace.unknown[i])
            /\ \A i \in DOMAIN r.trace.unknown : stopsAtOtherTag(r, i)]_vars

\* an update created a unit and then returned early at another unknown ID
C2_Witness ==
    /\ last.op = "update"
    /\ last.aborted
    /\ last.created # {}
    /\ last.created \subseteq DOMAIN units

\* C3: no exception escapes UnitsManager.update, whatever the buffer.
C3_ReturnsNormally == last.op = "update" => ~last.threw

\* C4: when update returns early, every unit created earlier in the buffer
\* is in the table and every field merged earlier in the buffer has the
\* value it was last given.
C4_NothingRolledBack ==
    [][IsUpdate =>
        LET r == Decoded
            merged == r.trace.merged
        IN  r.how = "abort" =>
              /\ \A id \in r.trace.created : id \in DOMAIN units'
              /\ \A i \in DOMAIN merged : \A s \in SubRecords : \A k \in DOMAIN DefaultData[s] :
                    ( /\ contains(merged[i].data, s, k)
                      /\ \A j \in (i + 1)..Len(merged) :
                            ~(merged[j].ID = merged[i].ID /\ contains(merged[j].data, s, k)) )
                    => /\ merged[i].ID \in DOMAIN units'
                       /\ units'[merged[i].ID].data[s][k] = merged[i].data[s][k]]_vars

\* an update created a unit, gave it a group name and then returned early
C4_Witness ==
    /\ last.op = "update"
    /\ last.aborted
    /\ \E id \in last.created :
          id \in DOMAIN units /\ getGroupName(units[id]) = <<97>>

droppedEntity(msg, i) ==
    /\ msg.recs[i].fields[1].tag = "category"
    /\ getConstructor(msg.recs[i].fields[1].value) = None
    /\ msg.recs[i].ID \notin DOMAIN units
    /\ \A j \in DOMAIN msg.recs \ {i} :
          msg.recs[j] \in PlainRecords /\ msg.recs[j].ID \in DOMAIN units

\* the message without its record i
withoutRecord(msg, i) ==
    Message(msg.time, [j \in 1..(Len(msg.recs) - 1) |->
                          IF j < i THEN msg.recs[j] ELSE msg.recs[j + 1]])

\* C6: a new entity of an unrecognised or empty category is not created,
\* and every other unit is after the call as it would be had the entity's
\* bytes not been in the buffer.
C6_UnknownCategoryDropped ==
    [][(IsUpdate /\ inflight.cut = 0) =>
        \A i \in DOMAIN inflight.recs :
            droppedEntity(inflight, i) =>
                LET r2 == update(units, groups, Encode(withoutRecord(inflight, i)), hide)
                IN  /\ inflight.recs[i].ID \notin DOMAIN units'
                    /\ \A id \in DOMAIN units : units'[id] = r2.units[id]]_vars

\* a unit is in the member set of at most one group, the one it remembers
atMostOneGroup ==
    \A id \in DOMAIN units :
        /\ Cardinality({ g \in DOMAIN groups : id \in groups[g] }) <= 1
        /\ \A g \in DOMAIN groups : id \in groups[g] <=> g \in units[id].group

\* C10: a unit is a member of at most one group, and a unit that is a
\* member of a group is a member of that group after every step, whatever
\* group name it reports.
C10_GroupForEver ==
    [][ /\ atMostOneGroup'
        /\ \A id \in DOMAIN units :
              units[id].group # NoGroup =>
                  /\ id \in DOMAIN units'
                  /\ units'[id].group = units[id].group
                  /\ \A g \in units[id].group :
                        g \in DOMAIN groups' /\ id \in groups'[g] ]_vars

\* after an update, a member of group "a" reports the group name "b"
C10_Witness ==
    /\ last.op = "update"
    /\ \E id \in DOMAIN units :
          /\ units[id].group = {<<97>>}
          /\ id \in groups[<<97>>]
          /\ getGroupName(units[id]) = <<98>>

\* unit id of the table after the step had no group before the step
wasUngrouped(id) == id \notin DOMAIN units \/ units[id].group = NoGroup

\* after the step, every unit that had no group and reports a non-empty
\* group name is a member of the group of that name
ungroupedAreGrouped ==
    \A id \in DOMAIN units' :
        (wasUngrouped(id) /\ getGroupName(units'[id]) # <<>>) =>
            /\ getGroupName(units'[id]) \in DOMAIN groups'
            /\ id \in groups'[getGroupName(units'[id])]
            /\ units'[id].group = {getGroupName(units'[id])}

\* C11: after a completed update, the units that had no group and report
\* the same non-empty name are members of the one group of that name; a
\* group that existed is the same group with at least its members, a new
\* group has a name some unit reports, and no group has the empty name.
C11_OneGroupPerName ==
    [][(IsUpdate /\ Decoded.how = "done") =>
        /\ ungroupedAreGrouped
        /\ \A g \in DOMAIN groups : g \in DOMAIN groups' /\ groups[g] \subseteq groups'[g]
        /\ \A g \in DOMAIN groups' \ DOMAIN groups :
              \E id \in DOMAIN units' : getGroupName(units'[id]) = g
        /\ <<>> \notin DOMAIN groups']_vars

\* a completed update has left two units in the group "a"
C11_Witness ==
    /\ last.op = "update"
    /\ ~last.threw /\ ~last.aborted
    /\ <<97>> \in DOMAIN groups
    /\ Cardinality(groups[<<97>>]) = 2
    /\ \A id \in groups[<<97>>] : units[id].group = {<<97>>}

\* C12: on return from any update call, completed or abandoned, every unit
\* that had no group and reports a non-empty group name is a member of the
\* group of that name.
C12_GroupedOnEveryReturn ==
    [][(IsUpdate /\ Decoded.how # "throw") => ungroupedAreGrouped]_vars

\* the update in flight gets to the detection step and recomputes
recomputes ==
    /\ Decoded.how = "done"
    /\ requestDetectionUpdate
    /\ app.commandMode # GAME_MASTER

\* the contacts reported by the alive units of coalition c of table U
contactsOf(U, c) ==
    UNION { { U[o].contacts[i] : i \in DOMAIN U[o].contacts } :
              o \in { x \in DOMAIN U : U[x].data.baseData.alive
                                       /\ U[x].data.missionData.coalition = c } }

\* the methods by which target T is detected
detectedBy(T, U, c) ==
    { x.detectionMethod : x \in { y \in contactsOf(U, c) : y.ID = T } }

asSet(list) == { list[i] : i \in DOMAIN list }

\* C13: an update that does not get to the detection step with the flag
\* set outside Game Master mode changes no detection methods and leaves
\* the flag as it is; one that does gives every unit and weapon its
\* methods and clears the flag; no other step clears the flag, and only
\* the contactsUpdated event sets it.
C13_DetectionGated ==
    [][ /\ (IsUpdate /\ ~recomputes) =>
              /\ \A id \in DOMAIN units :
                    units'[id].detectionMethods = units[id].detectionMethods
              /\ app'.weapons = app.weapons
              /\ requestDetectionUpdate' = requestDetectionUpdate
        /\ (IsUpdate /\ recomputes) =>
              /\ ~requestDetectionUpdate'
              /\ \A id \in DOMAIN units' :
                    asSet(units'[id].detectionMethods)
                        = detectedBy(id, units', getCommandedCoalition(app))
              /\ \A id \in DOMAIN app'.weapons :
                    asSet(app'.weapons[id])
                        = detectedBy(id, units', getCommandedCoalition(app))
        /\ (~IsUpdate /\ requestDetectionUpdate' # requestDetectionUpdate) =>
              (requestDetectionUpdate' /\ last'.op = "contactsUpdated") ]_vars

\* an update returned early and the request is still pending
C13_Witness ==
    /\ last.op = "update"
    /\ last.aborted
    /\ requestDetectionUpdate
    /\ app.commandMode # GAME_MASTER

\* C14: when detection is recomputed, the list of every unit and weapon T
\* has no duplicate and is, as a set, the methods of the contacts with ID T
\* of the alive units of the commanded coalition; no entry is made for an
\* ID that is in neither table.
C14_DetectionMethods ==
    [][(IsUpdate /\ last'.detected) =>
        /\ \A T \in DOMAIN units' :
              /\ asSet(units'[T].detectionMethods)
                    = detectedBy(T, units', getCommandedCoalition(app))
              /\ Len(units'[T].detectionMethods) = Cardinality(asSet(units'[T].detectionMethods))
        /\ DOMAIN app'.weapons = DOMAIN app.weapons
        /\ \A T \in DOMAIN app'.weapons :
              /\ asSet(app'.weapons[T])
                    = detectedBy(T, units', getCommandedCoalition(app))
              /\ Len(app'.weapons[T]) = Cardinality(asSet(app'.weapons[T]))]_vars

\* detection was recomputed: the weapon has the one method its alive blue
\* observer reports twice, and nothing from the dead or red observer
C14_Witness ==
    /\ last.op = "update"
    /\ last.detected
    /\ 3 \in DOMAIN app.weapons
    /\ app.weapons[3] = <<1>>
    /\ \E a, b \in DOMAIN units :
          /\ getAlive(units[a]) /\ units[a].data.missionData.coalition = "blue"
          /\ units[a].contacts = <<Contact(3, 1), Contact(3, 1)>>
          /\ ~getAlive(units[b]) \/ units[b].data.missionData.coalition = "red"
          /\ units[b].contacts = <<Contact(3, 2), Contact(2, 1)>>
          /\ units[b].detectionMethods = <<>>

\* C15: a command operation on a unit leaves all the sub-records of the
\* data of every unit as they were.
C15_CommandsKeepData ==
    [][last'.op \in Commands =>
        \A id \in DOMAIN units : units'[id].data = units[id].data]_vars

\* C16: a unit that is in the table before a step is in the table after
\* it, alive or not, and is the same object: its class, its contacts and
\* the group it was assigned to are as before.
C16_TableOnlyGrows ==
    [][\A id \in DOMAIN units :
          /\ id \in DOMAIN units'
          /\ units'[id].ID = id
          /\ units'[id].class = units[id].class
          /\ units'[id].contacts = units[id].contacts
          /\ units[id].group # NoGroup => units'[id].group = units[id].group]_vars

\* the second update has left in the table a unit that was there before
\* it and is not alive
C16_Witness ==
    /\ last.op = "update"
    /\ ticks = 2
    /\ \E id \in DOMAIN units \ last.created : ~getAlive(units[id])

\* what Unit.updateVisibility computes for unit u now
shouldBeHidden(u) ==
    \/ u.data.missionData.coalition \in hide
    \/ getMarkerCategory(u) \in hide
    \/ ~u.data.baseData.alive

\* C17: after a setData call on a unit (its construction included) and
\* after a toggle of a hide flag, the hidden flag of the unit is what its
\* coalition, its marker category and its alive flag make it.
C17_HiddenIsRecomputed ==
    /\ (last.op \in {"new", "setData"} /\ ~last.threw /\ last.id \in DOMAIN units)
          => getHidden(units[last.id]) = shouldBeHidden(units[last.id])
    /\ last.op \in {"toggleCoalitionVisibility", "toggleUnitVisibility"}
          => \A id \in DOMAIN units : getHidden(units[id]) = shouldBeHidden(units[id])

\* C18: two updates with disjoint fields give the same data in either
\* order and applied once as their union, and an update applied twice
\* gives the data it gives applied once.
C18_MergeOrderIndependent ==
    last.op = "merge" =>
        /\ units["ab"].data = units["ba"].data
        /\ units["ab"].data = units["once"].data
        /\ units["twice"].data = units["first"].data

\* the buffer in flight is a whole message of one record, a field of a
\* unit that is in the table
oneFieldOfKnownUnit ==
    /\ inflight.cut = 0
    /\ Len(inflight.recs) = 1
    /\ inflight.recs[1] \in PlainRecords
    /\ inflight.recs[1].ID \in DOMAIN units

\* C19: an update with one field of unit X changes no other field of the
\* data of X, and leaves the data, the selection and the group of every
\* other unit, and the members of every group but for X, as they were.
C19_OnlyNamedFieldChanges ==
    [][(IsUpdate /\ oneFieldOfKnownUnit) =>
        LET X == inflight.recs[1].ID
            tag == inflight.recs[1].fields[1].tag
        IN  /\ \A s \in SubRecords : \A k \in DOMAIN DefaultData[s] :
                  k # tag => units'[X].data[s][k] = units[X].data[s][k]
            /\ \A Y \in DOMAIN units \ {X} :
                  /\ units'[Y].data = units[Y].data
                  /\ units'[Y].selected = units[Y].selected
                  /\ units'[Y].group = units[Y].group
            /\ \A g \in DOMAIN groups' :
                  groups'[g] \ {X} = IF g \in DOMAIN groups THEN groups[g] \ {X} ELSE {}]_vars

\* C20: the scan is made at most once, and the calls that have returned
\* have all returned the same list of DCSInstance objects.
C20_ScanOnce ==
    /\ dcs.scans <= 1
    /\ \A c1, c2 \in CallIDs :
          (dcs.calls[c1].pc = "returned" /\ dcs.calls[c2].pc = "returned")
              => dcs.calls[c1].result = dcs.calls[c2].result

\* call c has just been resumed and has returned
portCallReturns(c) ==
    /\ ports.calls[c].pc = "checked"
    /\ ports'.calls[c].pc = "returned"

\* the port of instance i that a call for the given kind of port leaves alone
otherPort(instance, which) ==
    IF which = "client" THEN instance.backendPort ELSE instance.clientPort

\* C21: a set...Port call returns true exactly when its check found the
\* port free, and then the port of the instance is the new one; when it
\* returns false the ports of all instances are as before.  The check finds
\* the port taken when the OS reports it in use, when another installed
\* instance has it, and when it is the other port of the instance.
C21_PortSetOnlyIfFree ==
    [][\A c \in PortCallIDs :
        LET call == ports.calls[c]
            this == call.inst
        IN  /\ portCallReturns(c) =>
                /\ ports'.calls[c].result = call.free
                /\ ports'.calls[c].result =>
                      /\ call.which = "client" => ports'.inst[this].clientPort = call.port
                      /\ call.which = "backend" => ports'.inst[this].backendPort = call.port
                      /\ otherPort(ports'.inst[this], call.which)
                            = otherPort(ports.inst[this], call.which)
                      /\ \A j \in InstIDs \ {this} : ports'.inst[j] = ports.inst[j]
                /\ ~ports'.calls[c].result => ports'.inst = ports.inst
            /\ (call.pc = "checking" /\ ports'.calls[c].pc = "checked")
                  => ~ports'.calls[c].free
            /\ (call.pc = "awaiting" /\ ports'.calls[c].pc = "checked")
                  => ((\/ otherPort(ports.inst[this], call.which) = call.port
                       \/ \E j \in InstIDs \ {this} :
                             /\ ports.inst[j].installed
                             /\ call.port \in {ports.inst[j].clientPort,
                                               ports.inst[j].backendPort})
                        => ~ports'.calls[c].free)]_vars

\* one call was refused the other port of its instance and has left the
\* ports alone, another has set a port
C21_Witness ==
    \E c, d \in PortCallIDs :
        /\ ports.calls[c].pc = "returned" /\ ~ports.calls[c].result
        /\ otherPort(ports.inst[ports.calls[c].inst], ports.calls[c].which)
              = ports.calls[c].port
        /\ ports.calls[d].pc = "returned" /\ ports.calls[d].result
        /\ ports.calls[d].which = "client"
        /\ ports.inst[ports.calls[d].inst].clientPort = ports.calls[d].port

\* C25: no two installed instances share a port, and no instance has one
\* port as client port and as backend port.
C25_PortsStayDistinct ==
    /\ \A i \in InstIDs : ports.inst[i].clientPort # ports.inst[i].backendPort
    /\ \A i, j \in InstIDs :
          (i # j /\ ports.inst[i].installed /\ ports.inst[j].installed)
              => {ports.inst[i].clientPort, ports.inst[i].backendPort}
                    \cap {ports.inst[j].clientPort, ports.inst[j].backendPort} = {}

\* C22: after setHotgroup(h, units) every alive unit that was in hotgroup h
\* and is not a target has no hotgroup, and every target has hotgroup h;
\* the targets are the units given, or the selected units when none are.
C22_HotgroupIsTargets ==
    [][last'.op = "setHotgroup" =>
        LET h == last'.hotgroup
            targets == IF last'.arg.given THEN Range(last'.arg.ids)
                       ELSE { id \in DOMAIN units : getSelected(units[id]) }
        IN  /\ \A id \in DOMAIN units \ targets :
                  (getAlive(units[id]) /\ getHotgroup(units[id]) = h)
                      => getHotgroup(units'[id]) = 0
            /\ \A id \in targets : getHotgroup(units'[id]) = h]_vars

\* C24: after selectUnit(ID, true) no unit but ID is selected and ID is
\* selected exactly when it is in the table, alive and selectable; after
\* selectUnit(ID, false) the units that were selected still are; after
\* deselectAllUnits() no unit is selected.
C24_SelectUnit ==
    [][/\ (last'.op = "selectUnit" /\ last'.flag) =>
            /\ \A id \in DOMAIN units' \ {last'.id} : ~getSelected(units'[id])
            /\ \A id \in DOMAIN units' \cap {last'.id} :
                  getSelected(units'[id])
                      <=> (getAlive(units'[id]) /\ getSelectable(units'[id]))
       /\ (last'.op = "selectUnit" /\ ~last'.flag) =>
            \A id \in DOMAIN units : getSelected(units[id]) => getSelected(units'[id])
       /\ last'.op = "deselectAllUnits" =>
            \A id \in DOMAIN units' : ~getSelected(units'[id])]_vars

\* selectUnit(ID, true) of a dead unit has taken the selection from the
\* other unit and has left nothing selected
C24_Witness ==
    /\ last.op = "selectUnit" /\ last.flag
    /\ last.preSelected
    /\ last.id \in DOMAIN units
    /\ ~getAlive(units[last.id])
    /\ \A id \in DOMAIN units : ~getSelected(units[id])

\* C23: a spawnUnits call that returns true has sent one spawn request to
\* the server, for the units given, whatever the category.
C23_TrueMeansSent ==
    [][(last'.op = "spawnUnits" /\ last'.result) =>
          /\ Len(sent') = 1
          /\ sent'[1].units = last'.units]_vars

\* C27: a spawnUnits call that returns false sends no request, leaves the
\* spent spawn points as they were and dispatches no event; it returns
\* false when spawns are restricted, for a ground or navy unit and for an
\* aircraft or helicopter without airbase, and when the units cost more
\* spawn points than are available.
C27_FalseMeansNothing ==
    [][last'.op = "spawnUnits" =>
          /\ ~last'.result =>
                /\ sent' = <<>>
                /\ mission' = mission
                /\ ui'.dispatched = <<>>
          /\ (spawnsRestricted(mission, app) /\ last'.category \in SurfaceCategories)
                => ~last'.result
          /\ (spawnsRestricted(mission, app) /\ last'.category \in AirCategories
                /\ last'.airbase = "") => ~last'.result
          /\ (last'.category \in AirCategories \cup SurfaceCategories
                /\ sum(last'.units) > mission.availableSpawnPoints) => ~last'.result]_vars

\* after a spawn that has spent points, a spawn that costs more than the
\* points available has returned false and the spent points are still there
C27_Witness ==
    /\ last.op = "spawnUnits"
    /\ ~last.result
    /\ ~spawnsRestricted(mission, app)
    /\ sum(last.units) > mission.availableSpawnPoints
    /\ mission.spentSpawnPoints > 0
    /\ sent = <<>>

\* the decode loop of r tested its condition at increasing seek positions,
\* at least the 4 bytes of an ID apart
advances(r) ==
    \A i \in 1..(Len(r.trace.seeks) - 1) :
        r.trace.seeks[i + 1] >= r.trace.seeks[i] + 4

\* C26: the update call ends, after a number of iterations of the decode
\* loop that the length of the buffer bounds: every iteration advances the
\* seek position by 4 bytes or more, the seek position never decreases, no
\* iteration begins at or after the end of the buffer, and none begins
\* after an unknown ID whose first tag is not the category.
C26_LoopTerminates ==
    [][IsUpdate =>
        LET r == Decoded
            n == Len(r.trace.seeks)
            len == Len(inflight.bytes)
        IN  /\ r.how \in {"done", "abort", "throw"}
            /\ advances(r)
            /\ n >= 1 => r.seek >= r.trace.seeks[n]
            /\ 4 * (n - 1) <= len
            /\ \A i \in 1..(n - 1) : r.trace.seeks[i] < len
            /\ r.how = "done" => (n >= 1 /\ r.trace.seeks[n] >= len)
            /\ \A i \in 1..Len(r.trace.unknown) :
                  ~categoryFirst(r.trace.unknown[i]) =>
                      /\ i = Len(r.trace.unknown)
                      /\ r.how = "abort"
                      /\ r.trace.seeks[n] = r.trace.unknown[i].pos]_vars

\* an update has run the loop to the end of a buffer of two records, each
\* of which made a unit
C26_Witness ==
    /\ last.op = "update"
    /\ ~last.threw /\ ~last.aborted
    /\ Cardinality(last.created) = 2

\* the operations of the manager that command units
CommandOps == UnitCommands \cup ShotsCommands \cup
              {"attackUnit", "followUnit", "addDestination", "delete", "dialog"}

\* a unit controlled by DCS that the map protects
dcsProtected(U, P, id) ==
    ~getHuman(U[id]) /\ ~isControlledByOlympus(U[id]) /\ getIsUnitProtected(P, U[id])

\* the four classes of segregateUnits partition the units given
segregated(U, P, ids) ==
    LET seg == segregateUnits(U, P, ids)
    IN  /\ \A id \in Range(ids) :
              Cardinality({ c \in {"human", "olympus", "dcsProtected", "dcsUnprotected"} :
                              id \in Range(seg[c]) }) = 1
        /\ \A id \in Range(seg.human) : getHuman(U[id])
        /\ \A id \in Range(seg.olympus) : ~getHuman(U[id]) /\ isControlledByOlympus(U[id])
        /\ \A id \in Range(seg.dcsProtected) : dcsProtected(U, P, id)
        /\ seg.controllable = seg.dcsUnprotected \o seg.human \o seg.olympus

\* C28: segregateUnits puts every unit given in exactly one of human,
\* olympus, dcsProtected and dcsUnprotected, with controllable =
\* dcsUnprotected + human + olympus, and every command operation sends its
\* requests only to the controllable units: never to a protected unit of
\* DCS, and none when no unit is controllable.
C28_OnlyControllable ==
    [][ last'.op \in CommandOps =>
          /\ \A arg \in UnitArrays \cup {Array(<<>>)} :
                segregated(units, ui.protected, arg.ids)
          /\ \A i \in DOMAIN sent' :
                /\ sent'[i].ID \in Range(last'.units)
                /\ ~dcsProtected(units, ui.protected, sent'[i].ID)
          /\ (last'.units = <<>> => sent' = <<>>) ]_vars

\* the requests are one delete for each of the units, with this immediate
oneDeleteEach(requests, ids, immediate) ==
    /\ \A i \in DOMAIN requests :
          /\ requests[i].command = "delete"
          /\ requests[i].immediate = immediate
          /\ requests[i].ID \in Range(ids)
    /\ \A id \in Range(ids) :
          Cardinality({ i \in DOMAIN requests : requests[i].ID = id }) = 1

\* C29: delete sends nothing when its units contain a human and the user
\* declines; from DELETE_SLOW_THRESHOLD units on it sends nothing until the
\* dialog resolves, and then one delete for each unit, immediate = false
\* for "delete-slow", true for "delete-immediate", and none for any other
\* action; below the threshold one delete for each unit, immediate = false.
C29_DeleteAfterConfirmations ==
    [][ /\ last'.op = "delete" =>
            IF selectionContainsAHuman(units, last'.units) /\ ~last'.flag
            THEN sent' = <<>> /\ ui'.dialogs = ui.dialogs
            ELSE IF Len(last'.units) >= DELETE_SLOW_THRESHOLD
            THEN /\ sent' = <<>>
                 /\ ui'.dialogs = Append(ui.dialogs,
                                         [units |-> last'.units, button |-> None])
            ELSE oneDeleteEach(sent', last'.units, FALSE) /\ ui'.dialogs = ui.dialogs
        /\ last'.op = "dialog" =>
            /\ last'.arg.action \in DialogActions
            /\ Len(last'.units) >= DELETE_SLOW_THRESHOLD
            /\ CASE last'.arg.action = "delete-slow" ->
                        oneDeleteEach(sent', last'.units, FALSE)
                 [] last'.arg.action = "delete-immediate" ->
                        oneDeleteEach(sent', last'.units, TRUE)
                 [] OTHER -> sent' = <<>>
        /\ last'.op \notin {"delete", "dialog"} =>
            \A i \in DOMAIN sent' : sent'[i].command # "delete" ]_vars

\* the dialog of a delete of two units, one of them a human the user has
\* confirmed, resolved with "delete-immediate": two deletes were sent
C29_Witness ==
    /\ last.op = "dialog"
    /\ last.arg.action = "delete-immediate"
    /\ selectionContainsAHuman(units, last.units)
    /\ Len(sent) = 2
    /\ sent[1].immediate /\ sent[2].immediate

\* the events of this type that the last step dispatched
dispatchedOf(E, type) == SelectSeq(E.dispatched, LAMBDA e : e.type = type)

\* a timer is pending exactly while its flag is true, and never two
oneTimer(E) ==
    /\ E.selectionTimers = (IF E.selectionEventDisabled THEN 1 ELSE 0)
    /\ E.deselectionTimers = (IF E.deselectionEventDisabled THEN 1 ELSE 0)

\* while a flag is true, only the firing of its timer dispatches the event
\* and resets the flag; the firing dispatches one event with the units
\* selected at that moment
coalesced ==
    [][ /\ oneTimer(ui')
        /\ IF last'.op = "unitsSelection"
           THEN /\ ui.selectionEventDisabled /\ ~ui'.selectionEventDisabled
                /\ ui'.dispatched =
                      <<[type |-> "unitsSelection", detail |-> getSelectedUnits(units')]>>
           ELSE /\ dispatchedOf(ui', "unitsSelection") = <<>>
                /\ ui.selectionEventDisabled => ui'.selectionEventDisabled
        /\ IF last'.op = "unitsDeselection"
           THEN /\ ui.deselectionEventDisabled /\ ~ui'.deselectionEventDisabled
                /\ ui'.dispatched =
                      <<[type |-> "unitsDeselection", detail |-> getSelectedUnits(units')]>>
           ELSE /\ dispatchedOf(ui', "unitsDeselection") = <<>>
                /\ ui.deselectionEventDisabled => ui'.deselectionEventDisabled ]_vars

\* C30: while #selectionEventDisabled is true no further timer is started;
\* the timer dispatches exactly one unitsSelection event with the units
\* selected when it fires and resets the flag.  The flag does not stay true
\* for ever, and a unit selection that leaves a unit selected is followed
\* by a unitsSelection event.  The same for #deselectionEventDisabled and
\* unitsDeselection.
C30_EventsCoalesced ==
    /\ coalesced
    /\ ui.selectionEventDisabled ~> ~ui.selectionEventDisabled
    /\ ui.deselectionEventDisabled ~> ~ui.deselectionEventDisabled
    /\ last.selections ~> last.op = "unitsSelection"
    /\ last.deselections ~> last.op = "unitsDeselection"

\* the timer has fired after a second unit was selected while it was
\* pending: one event with both units
C30_Witness ==
    /\ last.op = "unitsSelection"
    /\ ui.dispatched = <<[type |-> "unitsSelection", detail |-> <<1, 2>>]>>
    /\ ~ui.selectionEventDisabled
    /\ ui.selectionTimers = 0

\* C31: after the listeners have handled any unitSelection and
\* unitDeselection events, with the timers firing at any point, the state
\* the manager has last set on the map is MOVE_UNIT if a unit is selected
\* and IDLE if none is.
C31_MapStateFollowsSelection ==
    ui.mapState = (IF Len(getSelectedUnits(units)) > 0 THEN MOVE_UNIT ELSE IDLE)

\* C32: in Game Master mode update changes no detection methods and does
\* not clear #requestDetectionUpdate, nothing else clears it either, and
\* an update that runs outside Game Master mode while the request is
\* pending (the first one after the mode was left, in particular) serves
\* it: the methods are recomputed and the flag is cleared.
C32_RequestSurvivesGameMaster ==
    [][ /\ (IsUpdate /\ app.commandMode = GAME_MASTER) =>
              /\ \A id \in DOMAIN units :
                    units'[id].detectionMethods = units[id].detectionMethods
              /\ app'.weapons = app.weapons
              /\ requestDetectionUpdate' = requestDetectionUpdate
        /\ (requestDetectionUpdate /\ ~requestDetectionUpdate') =>
              (IsUpdate /\ app.commandMode # GAME_MASTER)
        /\ (IsUpdate /\ requestDetectionUpdate /\ app.commandMode # GAME_MASTER) =>
              (last'.detected /\ ~requestDetectionUpdate') ]_vars

\* C33: Unit.setData accepts an update in which a whole sub-record is
\* absent: the call completes normally, the absent sub-record is left as
\* it was, and the sub-records that are present are merged.
C33_AbsentSubRecordAccepted ==
    [][(IsApplyData /\ DOMAIN inflight.data # SubRecords) =>
        /\ ~last'.threw
        /\ \A s \in SubRecords \ DOMAIN inflight.data :
              units'[inflight.id].data[s] = units[inflight.id].data[s]
        /\ \A s \in DOMAIN inflight.data : \A k \in DOMAIN DefaultData[s] :
              units'[inflight.id].data[s][k] =
                  IF k \in DOMAIN inflight.data[s] THEN inflight.data[s][k]
                  ELSE units[inflight.id].data[s][k]]_vars

\* C34: every Group of the group table has at least one member, in every
\* state reachable by UnitsManager.update calls.
C34_NoEmptyGroup ==
    \A name \in DOMAIN groups : groups[name] # {}

====
